---- MODULE Spec2Model ----
(***************************************************************************)
(* A model of the million-pixel-wall backend: the purchase, upload and     *)
(* edit handlers of src/src/Api.ts over the tables created by              *)
(* src/unnamed/part_001 (wall_bricks, edit_bricks).                        *)
(*                                                                         *)
(* The process is single-threaded and cooperatively scheduled: a handler   *)
(* runs without interruption from one await to the next.  Every action     *)
(* below is the code of one handler between two consecutive awaits; what   *)
(* an awaited external call (store query, indexer, ledger, disk) returns   *)
(* is an input of the action that resumes after it.                        *)
(*                                                                         *)
(* A coordinate (x, y) is modelled by one integer: the pair is only ever   *)
(* compared for equality.                                                  *)
(*                                                                         *)
(* The state is the two tables, the requests in flight, the catalog load   *)
(* of start-up, the reconciliation loop, the render cache (cachedImage,    *)
(* cachedBricks) with the renders in flight, and the assets the service    *)
(* identity holds on the ledger.  The render a successful upload or edit   *)
(* starts is not awaited by the handler: it proceeds on its own.           *)
(***************************************************************************)
EXTENDS Integers, Sequences, FiniteSets, TLC

(***************************************************************************)
(* Bounds of the model.                                                    *)
(***************************************************************************)
\* bricks in the store when purchase requests are explored
NumBricks == 3
\* const chunkSize = 100 in purchaseBrickSquares, scaled down with the store
\* so that a request spans more than one chunk
chunkSize == 2
\* bricks in the store when upload/edit requests are explored
EditBricks == 2
\* largest number of images in one upload/edit request
MaxImages == 2
\* longest proof getAssetProof returns
MaxProof == 3
\* largest canopy depth of a tree account
MaxCanopy == 4
\* limit: 1000 in getDigitalStandardItems, scaled down so that full and
\* short pages are explored
limit == 2
\* pages the indexer is asked for before the exploration stops
MaxPages == 2
\* renders started without await that are followed at a time
MaxRenders == 2
\* coordinates bricks.json may name when the catalog load is explored
LoadBricks == 2
\* entries of bricks.json when the catalog load is explored
MaxCatalog == 2
\* entries of the catalog file at the first start
FirstCatalog == 1

(***************************************************************************)
(* Program constants.                                                      *)
(***************************************************************************)
LAMPORTS_PER_SOL == 1000000000
PRICE_PER_BRICK == 250000000
PRICE_PER_BRICK_EDIT == 100000000
JITO_FEE == 30000
FUNDS_DESTINATION == "9hLBcTppq5DUziXTnuUtorbzKSDzM8cFz3FSvUgD8Nsf"
\* fetchTransaction(15)
retries == 15
\* this.keypair.publicKey, the service identity
SERVICE == "service"
JITO_TIP_ACCOUNTS ==
    {"96gYZGLnJYVFmbjzopPSU6QiEV5fGqZNyN9nmNhvrZU5",
     "HFqU5x63VTqvQss8hp11i4wVV8bD44PvwucfZ2bU7gRe",
     "Cw8CFyM9FkoMi7K7Crf6HNQqf4uEMzpKw6QNghXLvLkY",
     "ADaUMid9yfUytqMBgopwjb2DTLSokTSzL1zt6iGPaS49",
     "DfXygSm4jCyNCybVYYK6DwvWqjKee8pbDmJGcLWNDXjh",
     "ADuUkR4vqLUMWXxW9gh6D6L8pMSawimctcNZ5pGwDcEt",
     "DttWaMuVvTiduZRnguLF7jNxTgiMBZ1hyAumKUiL2KRL",
     "3AVi9Tg9Uo68tJfuvoKvqKNWKkC5wPdSSdeBnizKZ6jT"}

NULL == "NULL"
\* the concurrent upload/edit requests
Requests == {"r1", "r2"}
\* the well-formed address a client claims, one string that is no public key,
\* and the addresses that occur in ledger transactions
Addresses == {"userA"}
BadAddress == "not-a-public-key"
\* addresses a purchase request may name: the public key of the service
\* identity is on the ledger for everyone to read
Purchasers == Addresses \cup {SERVICE}
LedgerAddresses == {"userA", "userB"}
\* transaction signatures a client may submit
Signatures == {"sig1", "sig2"}
\* the values getLatestBlockhash may return while a request is served
Blockhashes == {"blockhash1", "blockhash2"}
\* the owners the indexer may report for an asset: the service identity, the
\* purchaser, a third party
AssetOwners == {SERVICE, "userA", "userB"}

VARIABLES
    wall_bricks,    \* the table wall_bricks: coordinate -> row
    edit_bricks,    \* the table edit_bricks: the sequence of its rows
    req,            \* the in-flight upload/edit requests
    pur,            \* the in-flight purchase request
    xfer,           \* one createTransaction build followed on its own
    oracle,         \* one getDigitalStandardItems call followed on its own
    mod,            \* the in-flight edit-payment request
    recon,          \* the reconciliation loop updatePurchasedbricks
    cache,          \* cachedImage, cachedBricks and the renders not awaited
    info,           \* the in-flight getWallInfo request
    ub,             \* the in-flight getUserBricks request
    holdings,       \* the assets the service identity holds on chain
    load            \* loadBricksFromJSON at start-up

vars == <<wall_bricks, edit_bricks, req, pur, xfer, oracle, mod,
          recon, cache, info, ub, holdings, load>>

(***************************************************************************)
(* Helpers.                                                                *)
(***************************************************************************)
Range(s) == {s[i] : i \in DOMAIN s}

RECURSIVE SortedSeq(_)
SortedSeq(S) ==
    IF S = {} THEN <<>>
    ELSE LET m == CHOOSE x \in S : \A y \in S : x <= y
         IN  <<m>> \o SortedSeq(S \ {m})

\* the asset bound to a coordinate by the catalog (bricks.json)
AssetId(c) == 100 + c

\* a row as loadBricksFromJSON inserts it
NewBrick(c) == [assetId |-> AssetId(c), purchased |-> FALSE, image_location |-> NULL]

\* the coordinate lists a request body may carry: up to n coordinates of the
\* catalog or the first coordinate outside it, repeats allowed.  The handlers
\* use the list only through its length and through (x, y) IN (...), so
\* lists are taken up to reordering (nondecreasing).
CoordinateLists(catalog, n) ==
    LET C == catalog \cup {Cardinality(catalog) + 1}
    IN  {s \in UNION {[1..k -> C] : k \in 1..n} :
            \A i \in 1..(Len(s) - 1) : s[i] <= s[i + 1]}

\* SELECT ... FROM wall_bricks WHERE (x, y) IN (...): the matching rows, once
\* each, in table order
SelectBricks(coords) == SortedSeq(Range(coords) \cap DOMAIN wall_bricks)

\* new PublicKey(solAddress) succeeds
\* mutant: every address string is taken for a public key
ValidPublicKey_any(a) == TRUE

ValidPublicKey(a) == a \in Addresses \cup LedgerAddresses \cup {SERVICE}

(***************************************************************************)
(* The wall render and its cache: cachedImage, cachedBricks and            *)
(* updateWallImage.  A render is the rows its SELECT returned; what the    *)
(* canvas shows of a row is its image when the row is purchased and has    *)
(* one.  The awaits of updateWallImage after its SELECT (preloadImage,     *)
(* clone, fs.writeFile) touch nothing the handlers share and are one step. *)
(***************************************************************************)
\* undefined
NoRender == [defined |-> FALSE, of |-> <<>>]

\* canvas.toDataURL after the bricks with an image were added
RenderedImage(bricks) ==
    [defined |-> TRUE,
     of |-> [c \in DOMAIN bricks |->
                IF bricks[c].image_location # NULL /\ bricks[c].purchased
                THEN bricks[c].image_location ELSE NULL]]

\* bricks.map(brick => ({ x, y, purchased, name }))
RenderedBricks(bricks) ==
    [defined |-> TRUE, of |-> [c \in DOMAIN bricks |-> bricks[c].purchased]]

\* a call of updateWallImage waiting for its SELECT
NewRender == [pc |-> "query", bricks |-> <<>>]

\* the cache once init has started the first render without awaiting it
InitialCache ==
    [cachedImage |-> NoRender, cachedBricks |-> NoRender, renders |-> <<NewRender>>]

\* this.cachedImage = undefined
ClearImage(c) == [c EXCEPT !.cachedImage = NoRender]

\* this.cachedBricks = undefined
ClearBricks(c) == [c EXCEPT !.cachedBricks = NoRender]

\* this.updateWallImage() without await: the render runs on its own; the
\* model follows MaxRenders of them at a time
StartRender(c) ==
    IF Len(c.renders) < MaxRenders
    THEN [c EXCEPT !.renders = Append(@, NewRender)]
    ELSE c

\* this.cachedImage = dataURL; this.cachedBricks = bricks.map(...)
StoreRender(c, bricks) ==
    [c EXCEPT !.cachedImage = RenderedImage(bricks),
              !.cachedBricks = RenderedBricks(bricks)]

(***************************************************************************)
(* The upload and edit handlers: modifyUndefinedPurchasedBricks (/image)   *)
(* and modifyDefinedPurchasedBricks (/image/modify).                       *)
(***************************************************************************)
IdleRequest ==
    [pc |-> "idle", kind |-> "none", images |-> <<>>, solAddress |-> NULL,
     signature |-> NULL, attempt |-> 0, tasks |-> <<>>,
     status |-> 0, error |-> "",
     \* history of the run, not read by the handlers: the target assets the
     \* oracle's answer lacked, whether the oracle was asked, the bricks whose
     \* row the request updated, whether it added an edit record, and whether
     \* the signature was already recorded when the request arrived; the
     \* milliseconds fetchTransaction has slept, and whether it returned a
     \* transaction; whether that transaction holds a system transfer of the
     \* price of the edit from the claimed address to FUNDS_DESTINATION, and
     \* whether such a transaction has the claimed address as its first
     \* account key
     lacking |-> {}, asked |-> FALSE, wrote |-> {}, recorded |-> FALSE,
     usedAtStart |-> FALSE, waited |-> 0, found |-> FALSE,
     paid |-> FALSE, payer |-> FALSE]

\* res.status(status).json({ error }) followed by return
Respond(rec, status, error) ==
    [rec EXCEPT !.pc = "done", !.status = status, !.error = error]

\* bricks.filter(brick => !brick.image_location)
undefinedImageBricks(bricks) ==
    {c \in Range(bricks) : wall_bricks[c].image_location = NULL}

\* bricks.filter(brick => brick.image_location)
definedImageBricks(bricks) ==
    {c \in Range(bricks) : wall_bricks[c].image_location # NULL}

\* mutant: the ownership filter keeps nothing
missingAssets_unchecked(bricks, ownedAssetIds) == {}

\* assetIds.filter(assetId => !ownedAssetIds.includes(assetId))
missingAssets(bricks, ownedAssetIds) ==
    {a \in {wall_bricks[c].assetId : c \in Range(bricks)} : a \notin ownedAssetIds}

\* what getDigitalStandardItems may return for the address of a user: the
\* indexer is external and the pagination may end early, so any set of the
\* brick assets that have left the service identity
OracleAnswers ==
    SUBSET ({wall_bricks[c].assetId : c \in DOMAIN wall_bricks} \ holdings)

\* mutant: the replay query finds nothing
existingTransaction_skipped(signature) == FALSE

\* SELECT 1 FROM edit_bricks WHERE transaction_hash = $1
existingTransaction(signature) ==
    \E i \in DOMAIN edit_bricks : edit_bricks[i].transaction_hash = signature

\* transaction_hash VARCHAR(255) NOT NULL UNIQUE: the INSERT is refused
UniqueViolation(signature) ==
    \E i \in DOMAIN edit_bricks : edit_bricks[i].transaction_hash = signature

\* the finalized transactions the ledger may hold under a signature: a fee
\* payer and a list of instructions, each a system transfer or an
\* instruction of another program
LedgerInstructions ==
    [programId : {"System"}, fromPubkey : LedgerAddresses,
     toPubkey : {FUNDS_DESTINATION, "elsewhere"},
     lamports : {PRICE_PER_BRICK_EDIT * n : n \in 1..MaxImages}]
    \cup {[programId |-> "ComputeBudget", fromPubkey |-> NULL,
           toPubkey |-> NULL, lamports |-> 0]}

LedgerTransactions ==
    [feePayer : LedgerAddresses,
     instructions : {<<i>> : i \in LedgerInstructions}
                    \cup {<<i, j>> : i \in {[programId |-> "ComputeBudget", fromPubkey |-> NULL,
                                             toPubkey |-> NULL, lamports |-> 0]},
                                     j \in LedgerInstructions}]

\* mutant: the amount of the transfer is not compared
isValidTransaction_anyAmount(transaction, solAddress, totalSolPayment) ==
    \E i \in DOMAIN transaction.instructions :
        LET instruction == transaction.instructions[i]
        IN  /\ instruction.programId = "System"
            /\ instruction.toPubkey = FUNDS_DESTINATION
            /\ instruction.fromPubkey = solAddress

\* the loop over txData.compiledInstructions: decompileInstruction, then
\* SystemInstruction.decodeTransfer of the instructions of the system program
isValidTransaction(transaction, solAddress, totalSolPayment) ==
    \E i \in DOMAIN transaction.instructions :
        LET instruction == transaction.instructions[i]
        IN  /\ instruction.programId = "System"
            /\ instruction.toPubkey = FUNDS_DESTINATION
            /\ instruction.fromPubkey = solAddress
            /\ instruction.lamports = totalSolPayment

\* images.map(async (image) => ...): every task runs up to its
\* await fs.writeFile
StartImageTasks(rec) ==
    [rec EXCEPT !.pc = "write", !.tasks = [k \in DOMAIN rec.images |-> "file"]]

(* --- modifyUndefinedPurchasedBricks ---------------------------------- *)

\* entry to await db.any: address and signed-message checks
MU_Start(r, n) ==
    /\ req[r].pc = "idle"
    /\ \E images \in CoordinateLists(DOMAIN wall_bricks, n),
          solAddress \in Addresses \cup {BadAddress},
          isValidSignature \in BOOLEAN :
          LET rec == [IdleRequest EXCEPT !.kind = "undefined", !.images = images,
                                         !.solAddress = solAddress]
          IN  req' = [req EXCEPT ![r] =
                  IF ~ValidPublicKey(solAddress)
                  THEN Respond(rec, 400, "Invalid SOL address provided.")
                  ELSE IF ~isValidSignature
                  THEN Respond(rec, 400, "Invalid signature.")
                  ELSE [rec EXCEPT !.pc = "query"]]
    /\ UNCHANGED <<wall_bricks, edit_bricks, pur, xfer, oracle, mod, recon, cache, info, ub, holdings, load>>

\* db.any returns: existence and no-image checks, then the oracle is called
MU_Query(r) ==
    /\ req[r].pc = "query" /\ req[r].kind = "undefined"
    /\ \E ok \in BOOLEAN :
          LET bricks == SelectBricks(req[r].images)
          IN  req' = [req EXCEPT ![r] =
                  IF ~ok
                  THEN Respond(@, 500, "Internal server error.")
                  ELSE IF Len(bricks) # Len(req[r].images)
                  THEN Respond(@, 400, "One or more bricks do not exist.")
                  ELSE IF definedImageBricks(bricks) # {}
                  THEN Respond(@, 400, "One or more bricks already have an image defined.")
                  ELSE [@ EXCEPT !.pc = "oracle"]]
    /\ UNCHANGED <<wall_bricks, edit_bricks, pur, xfer, oracle, mod, recon, cache, info, ub, holdings, load>>

\* getDigitalStandardItems returns: ownership check, then the image tasks start
MU_Oracle(r) ==
    /\ req[r].pc = "oracle" /\ req[r].kind = "undefined"
    /\ \E ownedAssetIds \in OracleAnswers :
          LET bricks == SelectBricks(req[r].images)
              rec == [req[r] EXCEPT !.asked = TRUE, !.lacking =
                          {AssetId(c) : c \in Range(req[r].images) \cap DOMAIN wall_bricks}
                              \ ownedAssetIds]
          IN  req' = [req EXCEPT ![r] =
                  IF missingAssets(bricks, ownedAssetIds) # {}
                  THEN Respond(rec, 400, "Address does not hold the required NFTs for these bricks.")
                  ELSE StartImageTasks(rec)]
    /\ UNCHANGED <<wall_bricks, edit_bricks, pur, xfer, oracle, mod, recon, cache, info, ub, holdings, load>>

(* --- modifyDefinedPurchasedBricks ------------------------------------ *)

\* entry to await db.any: address check
MD_Start(r, n) ==
    /\ req[r].pc = "idle"
    /\ \E images \in CoordinateLists(DOMAIN wall_bricks, n),
          solAddress \in Addresses \cup {BadAddress},
          signature \in Signatures :
          LET rec == [IdleRequest EXCEPT !.kind = "defined", !.images = images,
                          !.solAddress = solAddress, !.signature = signature,
                          !.usedAtStart = \E i \in DOMAIN edit_bricks :
                                              edit_bricks[i].transaction_hash = signature]
          IN  req' = [req EXCEPT ![r] =
                  IF ~ValidPublicKey(solAddress)
                  THEN Respond(rec, 400, "Invalid SOL address provided.")
                  ELSE [rec EXCEPT !.pc = "query"]]
    /\ UNCHANGED <<wall_bricks, edit_bricks, pur, xfer, oracle, mod, recon, cache, info, ub, holdings, load>>

\* db.any returns: existence and image-defined checks, then the oracle is called
MD_Query(r) ==
    /\ req[r].pc = "query" /\ req[r].kind = "defined"
    /\ \E ok \in BOOLEAN :
          LET bricks == SelectBricks(req[r].images)
          IN  req' = [req EXCEPT ![r] =
                  IF ~ok
                  THEN Respond(@, 500, "Internal server error.")
                  ELSE IF Len(bricks) # Len(req[r].images)
                  THEN Respond(@, 400, "One or more bricks do not exist.")
                  ELSE IF undefinedImageBricks(bricks) # {}
                  THEN Respond(@, 400, "One or more bricks do not have an image defined.")
                  ELSE [@ EXCEPT !.pc = "oracle"]]
    /\ UNCHANGED <<wall_bricks, edit_bricks, pur, xfer, oracle, mod, recon, cache, info, ub, holdings, load>>

\* getDigitalStandardItems returns: ownership check, then the replay query
MD_Oracle(r) ==
    /\ req[r].pc = "oracle" /\ req[r].kind = "defined"
    /\ \E ownedAssetIds \in OracleAnswers :
          LET bricks == SelectBricks(req[r].images)
              rec == [req[r] EXCEPT !.asked = TRUE, !.lacking =
                          {AssetId(c) : c \in Range(req[r].images) \cap DOMAIN wall_bricks}
                              \ ownedAssetIds]
          IN  req' = [req EXCEPT ![r] =
                  IF missingAssets(bricks, ownedAssetIds) # {}
                  THEN Respond(rec, 400, "Address does not hold the required NFTs for these bricks.")
                  ELSE [rec EXCEPT !.pc = "replay"]]
    /\ UNCHANGED <<wall_bricks, edit_bricks, pur, xfer, oracle, mod, recon, cache, info, ub, holdings, load>>

\* db.oneOrNone returns: replay check, then the first getTransaction
MD_Replay(r) ==
    /\ req[r].pc = "replay"
    /\ \E ok \in BOOLEAN :
          req' = [req EXCEPT ![r] =
              IF ~ok
              THEN Respond(@, 500, "Internal server error.")
              ELSE IF existingTransaction(req[r].signature)
              THEN Respond(@, 400, "Transaction has already been used.")
              ELSE [@ EXCEPT !.pc = "fetch", !.attempt = 0]]
    /\ UNCHANGED <<wall_bricks, edit_bricks, pur, xfer, oracle, mod, recon, cache, info, ub, holdings, load>>

\* mutant: the loop runs while i <= retries
MD_FetchEmpty_oneMore(r) ==
    /\ req[r].pc = "fetch"
    /\ req' = [req EXCEPT ![r] =
           IF req[r].attempt + 1 <= retries
           THEN [@ EXCEPT !.attempt = @ + 1, !.waited = @ + 2000]
           ELSE Respond([@ EXCEPT !.attempt = @ + 1, !.waited = @ + 2000],
                        400, "Transaction not found.")]
    /\ UNCHANGED <<wall_bricks, edit_bricks, pur, xfer, oracle, mod, recon, cache, info, ub, holdings, load>>

\* getTransaction returned nothing: wait 2 s and try again, or give up once
\* the attempts are used up
MD_FetchEmpty(r) ==
    /\ req[r].pc = "fetch"
    /\ req' = [req EXCEPT ![r] =
           IF req[r].attempt + 1 < retries
           THEN [@ EXCEPT !.attempt = @ + 1, !.waited = @ + 2000]
           ELSE Respond([@ EXCEPT !.attempt = @ + 1, !.waited = @ + 2000],
                        400, "Transaction not found.")]
    /\ UNCHANGED <<wall_bricks, edit_bricks, pur, xfer, oracle, mod, recon, cache, info, ub, holdings, load>>

\* getTransaction returned a transaction: payment and fee-payer checks, then
\* the image tasks start
MD_Fetched(r, transaction) ==
    /\ req[r].pc = "fetch"
    /\    LET totalSolPayment == PRICE_PER_BRICK_EDIT * Len(req[r].images)
              \* the loop counter is dead once fetchTransaction has returned
              rec == [req[r] EXCEPT !.attempt = 0, !.waited = 0, !.found = TRUE,
                          !.paid = [programId |-> "System",
                                    fromPubkey |-> req[r].solAddress,
                                    toPubkey |-> FUNDS_DESTINATION,
                                    lamports |-> PRICE_PER_BRICK_EDIT * Len(req[r].images)]
                                       \in Range(transaction.instructions),
                          !.payer =
                              /\ [programId |-> "System",
                                  fromPubkey |-> req[r].solAddress,
                                  toPubkey |-> FUNDS_DESTINATION,
                                  lamports |-> PRICE_PER_BRICK_EDIT * Len(req[r].images)]
                                     \in Range(transaction.instructions)
                              /\ transaction.feePayer = req[r].solAddress]
          IN  req' = [req EXCEPT ![r] =
                  IF ~isValidTransaction(transaction, req[r].solAddress, totalSolPayment)
                  THEN Respond(rec, 400, "Invalid transaction: incorrect SOL payment.")
                  ELSE IF transaction.feePayer # req[r].solAddress
                  THEN Respond(rec, 400, "Transaction not signed by the provided SOL address.")
                  ELSE StartImageTasks(rec)]
    /\ UNCHANGED <<wall_bricks, edit_bricks, pur, xfer, oracle, mod, recon, cache, info, ub, holdings, load>>

\* getTransaction returns what the ledger holds under the signature
MD_FetchFound(r) ==
    \E transaction \in LedgerTransactions : MD_Fetched(r, transaction)

\* getTransaction threw
MD_FetchError(r) ==
    /\ req[r].pc = "fetch"
    /\ req' = [req EXCEPT ![r] =
           Respond([@ EXCEPT !.attempt = 0, !.waited = 0], 500, "Internal server error.")]
    /\ UNCHANGED <<wall_bricks, edit_bricks, pur, xfer, oracle, mod, recon, cache, info, ub, holdings, load>>

\* INSERT INTO edit_bricks returns (or is refused): 200 is sent
MD_Insert(r) ==
    /\ req[r].pc = "insert"
    /\ \E ok \in BOOLEAN :
          IF ~ok \/ UniqueViolation(req[r].signature)
          THEN /\ req' = [req EXCEPT ![r] = Respond(@, 500, "Internal server error.")]
               /\ UNCHANGED <<edit_bricks, cache>>
          ELSE /\ edit_bricks' = Append(edit_bricks,
                      [username |-> req[r].solAddress,
                       transaction_hash |-> req[r].signature])
               /\ req' = [req EXCEPT ![r] = Respond([@ EXCEPT !.recorded = TRUE], 200, "")]
               /\ cache' = StartRender(ClearImage(cache))
    /\ UNCHANGED <<wall_bricks, pur, xfer, oracle, mod, recon, info, ub, holdings, load>>

(* --- the image tasks of both handlers -------------------------------- *)

\* the handler after a task of its Promise.all has settled
AfterTask(rec) ==
    IF rec.pc # "write" THEN rec
    ELSE IF \E k \in DOMAIN rec.tasks : rec.tasks[k] = "failed"
    THEN Respond(rec, 500, "Internal server error.")
    ELSE IF \A k \in DOMAIN rec.tasks : rec.tasks[k] = "done"
    THEN IF rec.kind = "defined" THEN [rec EXCEPT !.pc = "insert"]
         ELSE Respond(rec, 200, "")
    ELSE rec

\* fs.writeFile of image k settles; on success the task issues its UPDATE
ImageWritten(r, k) ==
    /\ req[r].tasks[k] = "file"
    /\ \E ok \in BOOLEAN :
          req' = [req EXCEPT ![r] =
              AfterTask([@ EXCEPT !.tasks[k] = IF ok THEN "update" ELSE "failed"])]
    /\ UNCHANGED <<wall_bricks, edit_bricks, pur, xfer, oracle, mod, recon, cache, info, ub, holdings, load>>

\* mutant: the edit writes the whole row anew
UpdatedBrick_rowReplaced(row, kind, imagePath) ==
    [row EXCEPT !.image_location = imagePath, !.purchased = (kind = "undefined")]

\* the row written by UPDATE wall_bricks SET ... WHERE x = $2 AND y = $3
UpdatedBrick(row, kind, imagePath) ==
    IF kind = "undefined"
    THEN [row EXCEPT !.image_location = imagePath, !.purchased = TRUE]
    ELSE [row EXCEPT !.image_location = imagePath]

\* the UPDATE of image k settles; when it was the last task of an upload,
\* the handler clears cachedImage, starts a render and answers 200
ImageUpdated(r, k) ==
    /\ req[r].tasks[k] = "update"
    /\ \E ok \in BOOLEAN :
          IF ok
          THEN /\ wall_bricks' = [wall_bricks EXCEPT ![req[r].images[k]] =
                      UpdatedBrick(@, req[r].kind, r)]
               /\ req' = [req EXCEPT ![r] =
                      AfterTask([@ EXCEPT !.tasks[k] = "done",
                                          !.wrote = @ \cup {req[r].images[k]}])]
               /\ cache' = IF req[r].pc = "write" /\ req'[r].status = 200
                            THEN StartRender(ClearImage(cache))
                            ELSE cache
          ELSE /\ req' = [req EXCEPT ![r] = AfterTask([@ EXCEPT !.tasks[k] = "failed"])]
               /\ UNCHANGED <<wall_bricks, cache>>
    /\ UNCHANGED <<edit_bricks, pur, xfer, oracle, mod, recon, info, ub, holdings, load>>

\* the response has been sent and no task of the request is still running:
\* the slot takes the next request
Finish(r) ==
    /\ req[r].pc = "done"
    /\ \A k \in DOMAIN req[r].tasks : req[r].tasks[k] \in {"done", "failed"}
    /\ req' = [req EXCEPT ![r] = IdleRequest]
    /\ UNCHANGED <<wall_bricks, edit_bricks, pur, xfer, oracle, mod, recon, cache, info, ub, holdings, load>>

\* the handlers, for requests of at most n images
modifyUndefinedPurchasedBricks(r, n) ==
    \/ MU_Start(r, n)
    \/ MU_Query(r)
    \/ MU_Oracle(r)

modifyDefinedPurchasedBricks(r, n) ==
    \/ MD_Start(r, n)
    \/ MD_Query(r)
    \/ MD_Oracle(r)
    \/ MD_Replay(r)
    \/ MD_FetchEmpty(r)
    \/ MD_FetchFound(r)
    \/ MD_FetchError(r)
    \/ MD_Insert(r)

ImageTasks(r) ==
    \/ \E k \in DOMAIN req[r].tasks : ImageWritten(r, k)
    \/ \E k \in DOMAIN req[r].tasks : ImageUpdated(r, k)

(***************************************************************************)
(* The purchase handler: purchaseBrickSquares (/purchase).                 *)
(***************************************************************************)
IdlePurchase ==
    [pc |-> "idle", coordinates |-> <<>>, solAddress |-> NULL, bricks |-> <<>>,
     recentBlockhash |-> NULL, i |-> 0, builds |-> <<>>, transactions |-> <<>>,
     \* response: the transactions of the body sent, none in an error body
     status |-> 0, error |-> "", response |-> <<>>,
     \* history of the run, not read by the handler: whether db.any returned
     \* rows, the calls of getLatestBlockhash, the positions in bricks whose
     \* build was started, the owner getAsset reported for each, the position
     \* and error of the first build that threw, and whether some build
     \* returned before a build that precedes it in its chunk
     queried |-> FALSE, fetches |-> 0, started |-> {}, owners |-> <<>>,
     failedAt |-> 0, failure |-> "", outOfOrder |-> FALSE]

\* res.status(status).json(...) followed by return; a build still running
\* only reads the indexer and its result is dropped
PurchaseRespond(p, status, error, transactions) ==
    [p EXCEPT !.pc = "done", !.status = status, !.error = error,
              !.response = transactions, !.builds = <<>>]

\* mutant: the row count is not compared
CountMismatch_unchecked(bricks, coordinates) == FALSE

\* bricks.length !== coordinates.length
CountMismatch(bricks, coordinates) == Len(bricks) # Len(coordinates)

Instruction(programId, type, from, to, lamports, assetId) ==
    [programId |-> programId, type |-> type, fromPubkey |-> from,
     toPubkey |-> to, lamports |-> lamports, assetId |-> assetId]

\* transferInstruction: null
NoInstruction == Instruction(NULL, NULL, NULL, NULL, 0, 0)
\* the return value of a build, null until it has returned a transaction
NoTransaction ==
    [instructions |-> <<>>, feePayer |-> NULL, recentBlockhash |-> NULL,
     signatures |-> {}]

\* ComputeBudgetProgram.setComputeUnitLimit({ units: 100_000 })
setComputeUnitLimitInstruction ==
    Instruction("ComputeBudget", "setComputeUnitLimit", NULL, NULL, 0, 0)

\* ComputeBudgetProgram.setComputeUnitPrice({ microLamports: 100_000 })
setComputeUnitPriceInstruction ==
    Instruction("ComputeBudget", "setComputeUnitPrice", NULL, NULL, 0, 0)

\* SystemProgram.transfer({ fromPubkey, toPubkey, lamports })
transferSOLInstruction(from, to, amount) ==
    Instruction("System", "transfer", from, to, amount, 0)

\* SystemProgram.transfer to pickRandomItem(JITO_TIP_ACCOUNTS); the pick is
\* the argument toPubkey
jitoTipInstruction(publicKey, lamports, toPubkey) ==
    Instruction("System", "transfer", publicKey, toPubkey, lamports, 0)

\* createTransferInstruction of mpl-bubblegum: the leaf of assetId moves from
\* leafOwner to newLeafOwner
createTransferInstruction(assetId, leafOwner, newLeafOwner) ==
    Instruction("Bubblegum", "transfer", leafOwner, newLeafOwner, 0, assetId)

\* the transferInstruction that transferNFTInstruction returns once getAsset
\* has reported the owner: null when the new owner already owns the asset
transferNFTInstruction(assetId, rpcOwner, newOwner) ==
    IF rpcOwner = newOwner THEN NoInstruction
    ELSE createTransferInstruction(assetId, rpcOwner, newOwner)

\* mutant: the tip is added before the ownership transfer
PurchaseInstructions_tipFirst(userPublicKey, transferInstruction, tipAccount) ==
    << setComputeUnitLimitInstruction,
       setComputeUnitPriceInstruction,
       transferSOLInstruction(userPublicKey, FUNDS_DESTINATION, PRICE_PER_BRICK),
       transferSOLInstruction(SERVICE, FUNDS_DESTINATION, 1),
       jitoTipInstruction(userPublicKey, JITO_FEE, tipAccount),
       transferInstruction >>

\* the instructions createTransaction adds, in the order it adds them
PurchaseInstructions(userPublicKey, transferInstruction, tipAccount) ==
    << setComputeUnitLimitInstruction,
       setComputeUnitPriceInstruction,
       transferSOLInstruction(userPublicKey, FUNDS_DESTINATION, PRICE_PER_BRICK),
       transferSOLInstruction(SERVICE, FUNDS_DESTINATION, 1),
       transferInstruction,
       jitoTipInstruction(userPublicKey, JITO_FEE, tipAccount) >>

\* mutant: every build stamps the blockhash that is latest when it completes
StampedBlockhash_latest(p) == Blockhashes

\* transaction.recentBlockhash = recentBlockhash: the values a build may stamp
StampedBlockhash(p) == {p.recentBlockhash}

\* the serialized transaction createTransaction returns
PurchaseTransaction(userPublicKey, transferInstruction, tipAccount, blockhash) ==
    [instructions |-> PurchaseInstructions(userPublicKey, transferInstruction, tipAccount),
     feePayer |-> userPublicKey,
     recentBlockhash |-> blockhash,
     signatures |-> {SERVICE}]

\* const chunk = bricks.slice(i, i + chunkSize), as positions in bricks
\* mutant: the rest of the bricks is taken as one chunk
Chunk_rest(p, i) == {k \in DOMAIN p.bricks : i < k}

Chunk(p, i) == {k \in DOMAIN p.bricks : i < k /\ k <= i + chunkSize}

\* chunk.map(createTransaction): every build runs up to its
\* await getAssetProof
StartChunk(p, i) ==
    [p EXCEPT !.pc = "chunk", !.i = i,
              !.builds = [k \in Chunk(p, i) |-> [stage |-> "proof", owner |-> NULL, result |-> NoTransaction]],
              !.started = @ \cup Chunk(p, i)]

RECURSIVE ChunkResults(_, _)
\* chunkTransactions.filter(tx => tx !== null), in the order of the chunk
ChunkResults(builds, ks) ==
    IF ks = {} THEN <<>>
    ELSE LET k == CHOOSE x \in ks : \A y \in ks : x <= y
             rest == ChunkResults(builds, ks \ {k})
         IN  IF builds[k].result = NoTransaction THEN rest ELSE <<builds[k].result>> \o rest

\* mutant: the chunk's transactions replace those of the earlier chunks
PushChunk_assign(transactions, builds) ==
    ChunkResults(builds, DOMAIN builds)

\* mutant: the chunk's transactions are put in front of the earlier ones
PushChunk_unshift(transactions, builds) ==
    ChunkResults(builds, DOMAIN builds) \o transactions

\* transactions.push(...chunkTransactions.filter(tx => tx !== null))
PushChunk(transactions, builds) ==
    transactions \o ChunkResults(builds, DOMAIN builds)

\* mutant: a failed chunk is dropped and the loop goes on
ChunkFailed_dropChunk(p, err) ==
    IF p.i + chunkSize < Len(p.bricks)
    THEN StartChunk(p, p.i + chunkSize)
    ELSE PurchaseRespond(p, 200, "", p.transactions)

\* the catch around a chunk: res.status(400).json({ error }) and return
ChunkFailed(p, err) == PurchaseRespond(p, 400, err, <<>>)

\* the handler once every build of the chunk has resolved: the next chunk
\* starts, or the response is sent
ChunkDone(p) ==
    LET transactions == PushChunk(p.transactions, p.builds)
        q == [p EXCEPT !.transactions = transactions]
    IN  IF p.i + chunkSize < Len(p.bricks)
        THEN StartChunk(q, p.i + chunkSize)
        ELSE PurchaseRespond(q, 200, "", transactions)

\* the handler after build k has returned `result`
BuildResolved(p, k, result) ==
    LET q == [p EXCEPT !.builds[k].stage = "done", !.builds[k].result = result,
                       !.outOfOrder = @ \/ \E j \in DOMAIN p.builds :
                                              j < k /\ p.builds[j].stage # "done"]
    IN  IF \A j \in DOMAIN q.builds : q.builds[j].stage = "done"
        THEN ChunkDone(q)
        ELSE q

\* the handler after build k has thrown `err`
BuildRejected(p, k, err) ==
    ChunkFailed([p EXCEPT !.failedAt = k, !.failure = err], err)

\* entry to await db.any: address check
P_Start(n) ==
    /\ pur.pc = "idle"
    /\ \E coordinates \in CoordinateLists(DOMAIN wall_bricks, n),
          solAddress \in Purchasers \cup {BadAddress} :
          LET p == [IdlePurchase EXCEPT !.coordinates = coordinates,
                                        !.solAddress = solAddress]
          IN  pur' = IF ~ValidPublicKey(solAddress)
                     THEN PurchaseRespond(p, 400, "Invalid SOL address provided.", <<>>)
                     ELSE [p EXCEPT !.pc = "query"]
    /\ UNCHANGED <<wall_bricks, edit_bricks, req, xfer, oracle, mod, recon, cache, info, ub, holdings, load>>

\* db.any returns: existence check, then getLatestBlockhash is called
P_Query ==
    /\ pur.pc = "query"
    /\ \E ok \in BOOLEAN :
          LET bricks == SelectBricks(pur.coordinates)
          IN  pur' = IF ~ok
                     THEN PurchaseRespond(pur, 500, "Internal server error.", <<>>)
                     ELSE IF CountMismatch(bricks, pur.coordinates)
                     THEN PurchaseRespond([pur EXCEPT !.bricks = bricks, !.queried = TRUE], 400,
                                          "One or more bricks do not exist.", <<>>)
                     ELSE [pur EXCEPT !.pc = "blockhash", !.bricks = bricks,
                                      !.queried = TRUE, !.fetches = @ + 1]
    /\ UNCHANGED <<wall_bricks, edit_bricks, req, xfer, oracle, mod, recon, cache, info, ub, holdings, load>>

\* getLatestBlockhash returns (or throws): the first chunk starts
P_Blockhash ==
    /\ pur.pc = "blockhash"
    /\ \/ \E blockhash \in Blockhashes :
             pur' = StartChunk([pur EXCEPT !.recentBlockhash = blockhash], 0)
       \/ pur' = PurchaseRespond(pur, 500, "Internal server error.", <<>>)
    /\ UNCHANGED <<wall_bricks, edit_bricks, req, xfer, oracle, mod, recon, cache, info, ub, holdings, load>>

\* getAssetProof of build k returns: a missing or empty proof throws, else
\* getAccountInfo is called for the tree
B_Proof(k) ==
    /\ pur.pc = "chunk" /\ pur.builds[k].stage = "proof"
    /\ \E proofEmpty \in BOOLEAN :
          pur' = IF proofEmpty
                 THEN BuildRejected(pur, k, "Error: Proof is empty")
                 ELSE [pur EXCEPT !.builds[k].stage = "tree"]
    /\ UNCHANGED <<wall_bricks, edit_bricks, req, xfer, oracle, mod, recon, cache, info, ub, holdings, load>>

\* getAccountInfo of build k returns: a missing account throws, else
\* getAsset is called
B_Tree(k) ==
    /\ pur.pc = "chunk" /\ pur.builds[k].stage = "tree"
    /\ \E accountMissing \in BOOLEAN :
          pur' = IF accountMissing
                 THEN BuildRejected(pur, k, "Error: Failed to fetch merkle tree")
                 ELSE [pur EXCEPT !.builds[k].stage = "asset"]
    /\ UNCHANGED <<wall_bricks, edit_bricks, req, xfer, oracle, mod, recon, cache, info, ub, holdings, load>>

\* getAsset of build k returns the asset: when the purchaser owns it the build
\* returns null, else getBubblegumAuthorityPDA is awaited
B_Asset(k) ==
    /\ pur.pc = "chunk" /\ pur.builds[k].stage = "asset"
    /\ \E rpcOwner \in AssetOwners :
          LET p == [pur EXCEPT !.builds[k].owner = rpcOwner,
                               !.owners = @ @@ (k :> rpcOwner)]
              assetId == wall_bricks[pur.bricks[k]].assetId
          IN  pur' = IF transferNFTInstruction(assetId, rpcOwner, pur.solAddress) = NoInstruction
                     THEN IF rpcOwner # pur.solAddress
                          THEN BuildRejected(p, k,
                                   "Error: One or more bricks are already purchased by another user.")
                          ELSE BuildResolved(p, k, NoTransaction)
                     ELSE [p EXCEPT !.builds[k].stage = "pda"]
    /\ UNCHANGED <<wall_bricks, edit_bricks, req, xfer, oracle, mod, recon, cache, info, ub, holdings, load>>

\* getAsset of build k returned nothing (WrappedConnection swallowed the
\* error): reading rpcAsset.ownership throws
B_AssetMissing(k) ==
    /\ pur.pc = "chunk" /\ pur.builds[k].stage = "asset"
    /\ pur' = BuildRejected(pur, k, "TypeError")
    /\ UNCHANGED <<wall_bricks, edit_bricks, req, xfer, oracle, mod, recon, cache, info, ub, holdings, load>>

\* getBubblegumAuthorityPDA of build k returns: the transfer instruction is
\* created (a base-58 decode may throw) and the transaction is completed,
\* signed and serialized
B_Pda(k) ==
    /\ pur.pc = "chunk" /\ pur.builds[k].stage = "pda"
    /\ \/ \E tipAccount \in JITO_TIP_ACCOUNTS, blockhash \in StampedBlockhash(pur) :
             LET assetId == wall_bricks[pur.bricks[k]].assetId
                 transferInstruction ==
                     transferNFTInstruction(assetId, pur.builds[k].owner, pur.solAddress)
             IN  pur' = BuildResolved(pur, k,
                            PurchaseTransaction(pur.solAddress, transferInstruction,
                                                tipAccount, blockhash))
       \/ pur' = BuildRejected(pur, k, "Error: Non-base58 character")
    /\ UNCHANGED <<wall_bricks, edit_bricks, req, xfer, oracle, mod, recon, cache, info, ub, holdings, load>>

\* mutant: the handler marks the bricks it handed transactions out for
P_Finish_marksPurchased ==
    /\ pur.pc = "done"
    /\ pur' = IdlePurchase
    /\ wall_bricks' = [c \in DOMAIN wall_bricks |->
           IF pur.status = 200 /\ c \in Range(pur.coordinates)
           THEN [wall_bricks[c] EXCEPT !.purchased = TRUE]
           ELSE wall_bricks[c]]
    /\ UNCHANGED <<edit_bricks, req, xfer, oracle, mod, recon, cache, info, ub, holdings, load>>

\* the response has been sent: the next request is taken
P_Finish ==
    /\ pur.pc = "done"
    /\ pur' = IdlePurchase
    /\ UNCHANGED <<wall_bricks, edit_bricks, req, xfer, oracle, mod, recon, cache, info, ub, holdings, load>>

createTransaction(k) ==
    \/ B_Proof(k)
    \/ B_Tree(k)
    \/ B_Asset(k)
    \/ B_AssetMissing(k)
    \/ B_Pda(k)

\* the handler, for requests of at most n coordinates
purchaseBrickSquares(n) ==
    \/ P_Start(n)
    \/ P_Query
    \/ P_Blockhash
    \/ \E k \in DOMAIN pur.builds : createTransaction(k)
    \/ P_Finish

(***************************************************************************)
(* createTransaction and transferNFTInstruction for one brick, followed    *)
(* on their own against fixed indexer and ledger data.                     *)
(***************************************************************************)
Min(a, b) == IF a < b THEN a ELSE b
Max(a, b) == IF a > b THEN a ELSE b

\* Array.prototype.slice(start, end): a negative index counts from the end
\* of the array, and both indices are clamped to the array
Slice(array, start, end) ==
    LET len == Len(array)
        from == IF start < 0 THEN Max(len + start, 0) ELSE Min(start, len)
        to == IF end < 0 THEN Max(len + end, 0) ELSE Min(end, len)
    IN  IF from < to THEN SubSeq(array, from + 1, to) ELSE <<>>

\* what getAssetProof may return: nothing (WrappedConnection swallowed the
\* error, or the result has no proof), or a proof of 0..MaxProof nodes
AssetProofs ==
    {[present |-> FALSE, proof |-> <<>>]}
    \cup {[present |-> TRUE, proof |-> [n \in 1..N |-> n]] : N \in 0..MaxProof}

\* what getAccountInfo may return for the tree: null, or an account whose
\* canopy has depth 0..MaxCanopy
TreeAccounts ==
    {[present |-> FALSE, canopyDepth |-> 0]}
    \cup {[present |-> TRUE, canopyDepth |-> d] : d \in 0..MaxCanopy}

\* what getAsset may return: nothing, or the asset with its owner
RpcAssets ==
    {[present |-> FALSE, owner |-> NULL]}
    \cup {[present |-> TRUE, owner |-> o] : o \in AssetOwners}

\* mutant: only a missing proof is refused, an empty one passes
ProofUnavailable_missingOnly(assetProof) == ~assetProof.present

\* !assetProof?.proof || assetProof.proof.length === 0
ProofUnavailable(assetProof) ==
    ~assetProof.present \/ Len(assetProof.proof) = 0

\* assetProof.proof.map(node => ({ pubkey, ... })).slice(0, sliceIndex)
\* with sliceIndex = assetProof.proof.length - canopyDepth
AccountMeta(node) == [pubkey |-> node, isSigner |-> FALSE, isWritable |-> FALSE]

\* mutant: the levels are cut from the front of the proof
proofPath_fromFront(proof, canopyDepth) ==
    Slice([n \in DOMAIN proof |-> AccountMeta(proof[n])], canopyDepth, Len(proof))

proofPath(proof, canopyDepth) ==
    LET sliceIndex == Len(proof) - canopyDepth
    IN  Slice([n \in DOMAIN proof |-> AccountMeta(proof[n])], 0, sliceIndex)

IdleTransfer ==
    [pc |-> "idle", assetId |-> 0, newOwner |-> NULL, recentBlockhash |-> NULL,
     \* the data the indexer and the ledger hold for the asset
     assetProof |-> [present |-> FALSE, proof |-> <<>>],
     merkleTreeAccountRaw |-> [present |-> FALSE, canopyDepth |-> 0],
     rpcAsset |-> [present |-> FALSE, owner |-> NULL],
     decodable |-> TRUE,
     \* locals and results of transferNFTInstruction
     proofPath |-> <<>>, transferInstruction |-> NoInstruction,
     anchorRemainingAccounts |-> <<>>, owner |-> NULL, error |-> "",
     \* the value createTransaction returns
     transaction |-> NoTransaction]

\* throw new Error(...) in transferNFTInstruction: createTransaction rejects
TransferThrows(x, err) == [x EXCEPT !.pc = "thrown", !.error = err]

\* return { transferInstruction, owner }, and createTransaction up to its
\* return
TransferReturns(x, transferInstruction, tipAccount) ==
    [x EXCEPT !.pc = "returned",
              !.transferInstruction = transferInstruction,
              !.owner = x.rpcAsset.owner,
              !.anchorRemainingAccounts =
                  IF transferInstruction = NoInstruction THEN <<>> ELSE x.proofPath,
              !.transaction =
                  IF transferInstruction = NoInstruction THEN NoTransaction
                  ELSE PurchaseTransaction(x.newOwner, transferInstruction,
                                           tipAccount, x.recentBlockhash)]

\* createTransaction(brick) is called: it runs up to await getAssetProof
T_Start ==
    /\ xfer.pc = "idle"
    /\ \E c \in DOMAIN wall_bricks, newOwner \in Addresses,
          recentBlockhash \in Blockhashes, assetProof \in AssetProofs,
          merkleTreeAccountRaw \in TreeAccounts, rpcAsset \in RpcAssets,
          decodable \in BOOLEAN :
          xfer' = [IdleTransfer EXCEPT !.pc = "proof",
                      !.assetId = wall_bricks[c].assetId, !.newOwner = newOwner,
                      !.recentBlockhash = recentBlockhash,
                      !.assetProof = assetProof,
                      !.merkleTreeAccountRaw = merkleTreeAccountRaw,
                      !.rpcAsset = rpcAsset, !.decodable = decodable]
    /\ UNCHANGED <<wall_bricks, edit_bricks, req, pur, oracle, mod, recon, cache, info, ub, holdings, load>>

\* getAssetProof returns
T_Proof ==
    /\ xfer.pc = "proof"
    /\ xfer' = IF ProofUnavailable(xfer.assetProof)
               THEN TransferThrows(xfer, "Error: Proof is empty")
               ELSE [xfer EXCEPT !.pc = "tree"]
    /\ UNCHANGED <<wall_bricks, edit_bricks, req, pur, oracle, mod, recon, cache, info, ub, holdings, load>>

\* getAccountInfo returns: the proof path is cut to the canopy
T_Tree ==
    /\ xfer.pc = "tree"
    /\ xfer' = IF ~xfer.merkleTreeAccountRaw.present
               THEN TransferThrows(xfer, "Error: Failed to fetch merkle tree")
               ELSE [xfer EXCEPT !.pc = "asset",
                        !.proofPath = proofPath(xfer.assetProof.proof,
                                                xfer.merkleTreeAccountRaw.canopyDepth)]
    /\ UNCHANGED <<wall_bricks, edit_bricks, req, pur, oracle, mod, recon, cache, info, ub, holdings, load>>

\* getAsset returns
T_Asset ==
    /\ xfer.pc = "asset"
    /\ xfer' = IF ~xfer.rpcAsset.present
               THEN TransferThrows(xfer, "TypeError")
               ELSE IF transferNFTInstruction(xfer.assetId, xfer.rpcAsset.owner,
                                              xfer.newOwner) = NoInstruction
               THEN TransferReturns(xfer, NoInstruction, NULL)
               ELSE [xfer EXCEPT !.pc = "pda"]
    /\ UNCHANGED <<wall_bricks, edit_bricks, req, pur, oracle, mod, recon, cache, info, ub, holdings, load>>

\* getBubblegumAuthorityPDA returns: the instruction is created and returned
T_Pda ==
    /\ xfer.pc = "pda"
    /\ \E tipAccount \in JITO_TIP_ACCOUNTS :
          xfer' = IF ~xfer.decodable
                  THEN TransferThrows(xfer, "Error: Non-base58 character")
                  ELSE TransferReturns(xfer,
                           transferNFTInstruction(xfer.assetId, xfer.rpcAsset.owner,
                                                  xfer.newOwner),
                           tipAccount)
    /\ UNCHANGED <<wall_bricks, edit_bricks, req, pur, oracle, mod, recon, cache, info, ub, holdings, load>>

\* the build has settled: the next one is followed
T_Finish ==
    /\ xfer.pc \in {"returned", "thrown"}
    /\ xfer' = IdleTransfer
    /\ UNCHANGED <<wall_bricks, edit_bricks, req, pur, oracle, mod, recon, cache, info, ub, holdings, load>>

(***************************************************************************)
(* getDigitalStandardItems, followed on its own.                           *)
(***************************************************************************)
\* an item of a page: burnt and compression.compressed as the indexer flags
\* them; the item at position k of page p has id 10 * p + k
PageItems(page, n) ==
    {[k \in 1..n |-> [id |-> 10 * page + k, burnt |-> f[k].burnt,
                      compressed |-> f[k].compressed]] :
        f \in [1..n -> [burnt : BOOLEAN, compressed : BOOLEAN]]}

\* rawData.result of a page: total is the number of items returned
PageResults(page, n) ==
    {[items |-> items, total |-> n, limit |-> limit] : items \in PageItems(page, n)}

\* rawData?.result?.items?.filter(i => !i.burnt)
unburnt(items) == SelectSeq(items, LAMBDA i : ~i.burnt)

\* mutant: the compression filter keeps everything
compressedOnly_all(items) == items

\* unburnt.filter(c => c.compression?.compressed)
compressedOnly(items) == SelectSeq(items, LAMBDA c : c.compressed)

\* mutant: a page as large as the limit ends the loop too
lastPage_orEqual(result) == result.total <= result.limit

\* rawData.result.total < rawData.result.limit
lastPage(result) == result.total < result.limit

\* compressedNFTs.map(c => ({ assetId: c.id, image }))
CompressedNFT(c) == [assetId |-> c.id]

IdleOracle ==
    [pc |-> "idle", address |-> NULL, page |-> 0, compressedNFTs |-> <<>>,
     result |-> <<>>,
     \* history of the call, not read by it: the requests sent, the items
     \* and the total of every page received, and how a page failed
     requests |-> <<>>, fetched |-> <<>>, totals |-> <<>>, failure |-> ""]

\* the POST of getAssetsByOwner for page o.page
RequestPage(o) ==
    [o EXCEPT !.pc = "fetch",
              !.requests = Append(@, [page |-> o.page, limit |-> limit])]

\* the loop is left: return compressedNFTs.map(...)
OracleReturns(o) ==
    [o EXCEPT !.pc = "returned",
              !.result = [k \in DOMAIN o.compressedNFTs |-> CompressedNFT(o.compressedNFTs[k])]]

\* mutant: a failed page throws away what was accumulated
PageFailed_discard(o, failure) ==
    OracleReturns([o EXCEPT !.failure = failure, !.compressedNFTs = <<>>])

\* break after logger.error, or the catch around the loop
PageFailed(o, failure) == OracleReturns([o EXCEPT !.failure = failure])

\* the call: page = 1 and the first request is sent
O_Start ==
    /\ oracle.pc = "idle"
    /\ \E address \in Addresses \cup {SERVICE} :
          oracle' = RequestPage([IdleOracle EXCEPT !.address = address, !.page = 1])
    /\ UNCHANGED <<wall_bricks, edit_bricks, req, pur, xfer, mod, recon, cache, info, ub, holdings, load>>

\* fetch settles: it rejected, the status is not OK, or the body is read
O_Fetch ==
    /\ oracle.pc = "fetch"
    /\ \/ oracle' = PageFailed(oracle, "transport")
       \/ oracle' = PageFailed(oracle, "status")
       \/ oracle' = [oracle EXCEPT !.pc = "json"]
    /\ UNCHANGED <<wall_bricks, edit_bricks, req, pur, xfer, mod, recon, cache, info, ub, holdings, load>>

\* response.json() settles with a result: the items are filtered and added,
\* then the loop ends or the next page is requested
O_Json ==
    /\ oracle.pc = "json"
    /\ \E n \in 0..limit :
          /\ n = limit => oracle.page < MaxPages
          /\ \E result \in PageResults(oracle.page, n) :
                LET o == [oracle EXCEPT
                             !.compressedNFTs = @ \o compressedOnly(unburnt(result.items)),
                             !.fetched = @ \o result.items,
                             !.totals = Append(@, result.total)]
                IN  oracle' = IF lastPage(result)
                              THEN OracleReturns(o)
                              ELSE RequestPage([o EXCEPT !.page = @ + 1])
    /\ UNCHANGED <<wall_bricks, edit_bricks, req, pur, xfer, mod, recon, cache, info, ub, holdings, load>>

\* response.json() settles with an error field, or rejects
O_JsonError ==
    /\ oracle.pc = "json"
    /\ \/ oracle' = PageFailed(oracle, "error")
       \/ oracle' = PageFailed(oracle, "transport")
    /\ UNCHANGED <<wall_bricks, edit_bricks, req, pur, xfer, mod, recon, cache, info, ub, holdings, load>>

\* the caller has the list: the next call is followed
O_Finish ==
    /\ oracle.pc = "returned"
    /\ oracle' = IdleOracle
    /\ UNCHANGED <<wall_bricks, edit_bricks, req, pur, xfer, mod, recon, cache, info, ub, holdings, load>>

getDigitalStandardItems ==
    \/ O_Start
    \/ O_Fetch
    \/ O_Json
    \/ O_JsonError
    \/ O_Finish

(***************************************************************************)
(* The edit-payment handler: purchaseBrickModify (/purchase/modify).       *)
(***************************************************************************)
IdleModify ==
    [pc |-> "idle", coordinates |-> <<>>, solAddress |-> NULL, bricks |-> <<>>,
     \* the response: status, error, the bricks and the assets its body
     \* lists, its transactions
     status |-> 0, error |-> "", listed |-> {}, missingAssets |-> {},
     response |-> <<>>,
     \* history of the run, not read by the handler: whether db.any returned
     \* rows, the calls of getDigitalStandardItems and of getLatestBlockhash
     queried |-> FALSE, oracleCalls |-> 0, fetches |-> 0]

\* res.status(status).json({ error, <list> }) followed by return
ModifyRespond(m, status, error, listed) ==
    [m EXCEPT !.pc = "done", !.status = status, !.error = error, !.listed = listed]

\* bricks.filter(brick => !brick.purchased)
nonOwnedBricks(bricks) ==
    {c \in Range(bricks) : ~wall_bricks[c].purchased}

\* mutant: the image filter keeps nothing
bricksWithoutImage_unchecked(bricks) == {}

\* bricks.filter(brick => !brick.image_location)
bricksWithoutImage(bricks) ==
    {c \in Range(bricks) : wall_bricks[c].image_location = NULL}

\* mutant: the price of one brick, whatever their number
editPayment_single(bricks) == PRICE_PER_BRICK_EDIT

\* const totalSolPayment = PRICE_PER_BRICK_EDIT * bricks.length
editPayment(bricks) == PRICE_PER_BRICK_EDIT * Len(bricks)

\* mutant: the fee payer is the destination of the funds, not the user
ModifyTransaction_destinationPays(userPublicKey, bricks, tipAccount, recentBlockhash) ==
    [instructions |->
        << setComputeUnitLimitInstruction,
           setComputeUnitPriceInstruction,
           transferSOLInstruction(userPublicKey, FUNDS_DESTINATION, editPayment(bricks)),
           jitoTipInstruction(userPublicKey, JITO_FEE, tipAccount) >>,
     feePayer |-> FUNDS_DESTINATION,
     recentBlockhash |-> recentBlockhash,
     signatures |-> {}]

\* the transaction purchaseBrickModify serializes: it is not signed
ModifyTransaction(userPublicKey, bricks, tipAccount, recentBlockhash) ==
    [instructions |->
        << setComputeUnitLimitInstruction,
           setComputeUnitPriceInstruction,
           transferSOLInstruction(userPublicKey, FUNDS_DESTINATION, editPayment(bricks)),
           jitoTipInstruction(userPublicKey, JITO_FEE, tipAccount) >>,
     feePayer |-> userPublicKey,
     recentBlockhash |-> recentBlockhash,
     signatures |-> {}]

\* entry to await db.any: address check
M_StartFrom(addresses) ==
    /\ mod.pc = "idle"
    /\ \E coordinates \in CoordinateLists(DOMAIN wall_bricks, MaxImages),
          solAddress \in addresses :
          LET m == [IdleModify EXCEPT !.coordinates = coordinates,
                                      !.solAddress = solAddress]
          IN  mod' = IF ~ValidPublicKey(solAddress)
                     THEN ModifyRespond(m, 400, "Invalid SOL address provided.", {})
                     ELSE [m EXCEPT !.pc = "query"]
    /\ UNCHANGED <<wall_bricks, edit_bricks, req, pur, xfer, oracle, recon, cache, info, ub, holdings, load>>

M_Start == M_StartFrom(Addresses \cup {BadAddress})

\* db.any returns: existence, purchased and image checks, then the oracle
\* is called
M_Query ==
    /\ mod.pc = "query"
    /\ \E ok \in BOOLEAN :
          LET bricks == SelectBricks(mod.coordinates)
              m == [mod EXCEPT !.bricks = bricks, !.queried = TRUE]
          IN  mod' = IF ~ok
                     THEN ModifyRespond(mod, 500, "Internal server error.", {})
                     ELSE IF CountMismatch(bricks, mod.coordinates)
                     THEN ModifyRespond(m, 400, "One or more bricks do not exist.", {})
                     ELSE IF nonOwnedBricks(bricks) # {}
                     THEN ModifyRespond(m, 400, "One or more bricks are not owned by the user.",
                                        nonOwnedBricks(bricks))
                     ELSE IF bricksWithoutImage(bricks) # {}
                     THEN ModifyRespond(m, 400, "One or more bricks do not have an image defined.",
                                        bricksWithoutImage(bricks))
                     ELSE [m EXCEPT !.pc = "oracle", !.oracleCalls = @ + 1]
    /\ UNCHANGED <<wall_bricks, edit_bricks, req, pur, xfer, oracle, recon, cache, info, ub, holdings, load>>

\* getDigitalStandardItems returns: ownership check, then getLatestBlockhash
\* is called
M_Oracle ==
    /\ mod.pc = "oracle"
    /\ \E ownedAssetIds \in OracleAnswers :
          mod' = IF missingAssets(mod.bricks, ownedAssetIds) # {}
                 THEN [ModifyRespond(mod, 400,
                           "Address does not hold the required NFTs for these bricks.", {})
                         EXCEPT !.missingAssets = missingAssets(mod.bricks, ownedAssetIds)]
                 ELSE [mod EXCEPT !.pc = "blockhash", !.fetches = @ + 1]
    /\ UNCHANGED <<wall_bricks, edit_bricks, req, pur, xfer, oracle, recon, cache, info, ub, holdings, load>>

\* getLatestBlockhash returns (or throws): the transaction is built,
\* serialized and sent
M_Blockhash ==
    /\ mod.pc = "blockhash"
    /\ \/ \E recentBlockhash \in Blockhashes, tipAccount \in JITO_TIP_ACCOUNTS :
             mod' = [ModifyRespond(mod, 200, "", {}) EXCEPT !.response =
                        <<ModifyTransaction(mod.solAddress, mod.bricks, tipAccount,
                                            recentBlockhash)>>]
       \/ mod' = ModifyRespond(mod, 500, "Internal server error.", {})
    /\ UNCHANGED <<wall_bricks, edit_bricks, req, pur, xfer, oracle, recon, cache, info, ub, holdings, load>>

\* the response has been sent: the next request is taken
M_Finish ==
    /\ mod.pc = "done"
    /\ mod' = IdleModify
    /\ UNCHANGED <<wall_bricks, edit_bricks, req, pur, xfer, oracle, recon, cache, info, ub, holdings, load>>

purchaseBrickModify ==
    \/ M_Start
    \/ M_Query
    \/ M_Oracle
    \/ M_Blockhash
    \/ M_Finish


(***************************************************************************)
(* loadBricksFromJSON, run by createTables before the server listens.      *)
(***************************************************************************)
\* the entries bricks.json may hold: a coordinate and an asset id, 0 for an
\* entry without one; the asset of a coordinate may have been minted anew
CatalogEntries ==
    [column : 1..LoadBricks, assetId : {0}]
    \cup {[column |-> c, assetId |-> AssetId(c)] : c \in 1..LoadBricks}
    \cup {[column |-> c, assetId |-> AssetId(c) + 100] : c \in 1..LoadBricks}

Catalogs == UNION {[1..n -> CatalogEntries] : n \in 1..MaxCatalog}

\* the loader before fs.readFile returns; rows is the history of the table:
\* the coordinate and asset id of every row in the order of the INSERTs
StartLoad(bricksData, rows, reloaded) ==
    [pc |-> "read", bricksData |-> bricksData, newBricks |-> <<>>,
     tasks |-> <<>>, rows |-> rows, reloaded |-> reloaded,
     \* history: the catalog file of this start
     catalog |-> bricksData]

\* the loader has returned and every INSERT has settled, on a wall of n bricks
Loaded(n) ==
    [pc |-> "loaded", bricksData |-> <<>>, newBricks |-> <<>>, tasks |-> <<>>,
     rows |-> [c \in 1..n |-> [x |-> c, assetId |-> AssetId(c)]],
     reloaded |-> FALSE,
     catalog |-> [c \in 1..n |-> [column |-> c, assetId |-> AssetId(c)]]]

\* filter(brick => brick.assetId && !existingCoordinates.has(...)) in order
RECURSIVE newBricks(_, _)
newBricks(bricksData, existingCoordinates) ==
    IF bricksData = <<>> THEN <<>>
    ELSE IF /\ Head(bricksData).assetId # 0
            /\ Head(bricksData).column \notin existingCoordinates
    THEN <<Head(bricksData)>> \o newBricks(Tail(bricksData), existingCoordinates)
    ELSE newBricks(Tail(bricksData), existingCoordinates)

\* mutant: the table has no constraint on its coordinates
UniqueCoordinates_dropped(x) == TRUE

\* CONSTRAINT unique_coordinates UNIQUE(x, y): the INSERT of x is accepted
UniqueCoordinates(x) == x \notin DOMAIN wall_bricks

\* the table with the row INSERT INTO wall_bricks (x, y, assetId, purchased,
\* image_location, url) VALUES ($1, $2, $3, false, null, null) adds
InsertBrick(bricks, brick) ==
    [c \in DOMAIN bricks \cup {brick.column} |->
        IF c = brick.column
        THEN [assetId |-> brick.assetId, purchased |-> FALSE, image_location |-> NULL]
        ELSE bricks[c]]

\* the loader once all its INSERTs have settled
LoadSettled(l) ==
    IF \A k \in DOMAIN l.tasks : l.tasks[k] # "insert"
    THEN [l EXCEPT !.pc = "loaded", !.bricksData = <<>>, !.newBricks = <<>>,
                   !.tasks = <<>>]
    ELSE l

\* fs.readFile returns and the catalog is parsed, or the catch ends the load
L_Read ==
    /\ load.pc = "read"
    /\ \E ok \in BOOLEAN :
          load' = IF ok THEN [load EXCEPT !.pc = "select"]
                  ELSE LoadSettled([load EXCEPT !.pc = "loaded"])
    /\ UNCHANGED <<wall_bricks, edit_bricks, req, pur, xfer, oracle, mod,
                   recon, cache, info, ub, holdings>>

\* db.any returns the coordinates in the table: the INSERTs of the new
\* bricks are issued together; or the catch ends the load
L_Select ==
    /\ load.pc = "select"
    /\ \E ok \in BOOLEAN :
          load' = IF ~ok
                  THEN LoadSettled([load EXCEPT !.pc = "loaded"])
                  ELSE LET new == newBricks(load.bricksData, DOMAIN wall_bricks)
                       IN  IF Len(new) > 0
                           THEN [load EXCEPT !.pc = "insert", !.newBricks = new,
                                             !.tasks = [k \in DOMAIN new |-> "insert"]]
                           ELSE LoadSettled([load EXCEPT !.pc = "loaded"])
    /\ UNCHANGED <<wall_bricks, edit_bricks, req, pur, xfer, oracle, mod,
                   recon, cache, info, ub, holdings>>

\* the INSERT of new brick k settles: the row is added, or the statement is
\* refused and Promise.all rejects into the catch while the other INSERTs
\* go on
L_Insert(k) ==
    /\ k \in DOMAIN load.tasks
    /\ load.tasks[k] = "insert"
    /\ \E ok \in BOOLEAN :
          LET brick == load.newBricks[k]
          IN  IF ok /\ UniqueCoordinates(brick.column)
              THEN /\ wall_bricks' = InsertBrick(wall_bricks, brick)
                   /\ load' = LoadSettled([load EXCEPT
                          !.tasks[k] = "done",
                          !.rows = Append(@, [x |-> brick.column,
                                              assetId |-> brick.assetId])])
              ELSE /\ load' = LoadSettled([load EXCEPT !.tasks[k] = "failed",
                                                       !.pc = "loaded"])
                   /\ UNCHANGED wall_bricks
    /\ UNCHANGED <<edit_bricks, req, pur, xfer, oracle, mod,
                   recon, cache, info, ub, holdings>>

loadBricksFromJSON ==
    \/ L_Read
    \/ L_Select
    \/ \E k \in 1..MaxCatalog : L_Insert(k)

(***************************************************************************)
(* The reconciliation loop updatePurchasedbricks, started by init and      *)
(* never awaited.                                                          *)
(***************************************************************************)
\* the loop as init leaves it: the first cycle waits for the oracle
InitialRecon ==
    [pc |-> "oracle", currentAssets |-> {}, assetIdsToUpdate |-> {},
     \* history of the loop, not read by it: whether this is the first
     \* cycle, the milliseconds the loop slept before this cycle, how the
     \* last finished cycle ended, whether the oracle's answer of this
     \* cycle was all the service identity held when it was given, and the
     \* bricks of the UPDATE that were marked between the SELECT and the UPDATE
     first |-> TRUE, slept |-> 0, outcome |-> "none", complete |-> FALSE,
     late |-> {}]

\* what getDigitalStandardItems may return for the service identity: its
\* holdings, or a part of them when a page failed and the pagination ended
ServiceAnswers == SUBSET holdings

\* the try block is left normally: the loop goes to its sleep
CycleDone(u, outcome) ==
    [u EXCEPT !.pc = "sleep", !.outcome = outcome, !.slept = 0]

\* mutant: the loop has no catch
CycleFailed_escapes(u) == [u EXCEPT !.pc = "exited", !.outcome = "error"]

\* catch (err) { logger.error(...) }: the loop goes to its sleep
CycleFailed(u) == CycleDone(u, "error")

\* bricks.filter(brick => !currentAssetIdsSet.has(brick.assetid)) over the
\* rows of SELECT * FROM wall_bricks WHERE purchased = FALSE
purchasedBricks(currentAssets) ==
    {c \in DOMAIN wall_bricks : /\ ~wall_bricks[c].purchased
                                /\ wall_bricks[c].assetId \notin currentAssets}

\* mutant: the update writes the whole row and leaves it without image
MarkPurchased_dropImage(bricks, assetIdsToUpdate) ==
    [c \in DOMAIN bricks |->
        IF bricks[c].assetId \in assetIdsToUpdate
        THEN [bricks[c] EXCEPT !.purchased = TRUE, !.image_location = NULL]
        ELSE bricks[c]]

\* UPDATE wall_bricks SET purchased = TRUE WHERE assetid IN ($1:csv)
MarkPurchased(bricks, assetIdsToUpdate) ==
    [c \in DOMAIN bricks |->
        IF bricks[c].assetId \in assetIdsToUpdate
        THEN [bricks[c] EXCEPT !.purchased = TRUE]
        ELSE bricks[c]]

\* getDigitalStandardItems returns or throws: the SELECT is issued
U_Oracle ==
    /\ recon.pc = "oracle"
    /\ \/ \E currentAssets \in ServiceAnswers :
             recon' = [recon EXCEPT !.pc = "query",
                                    !.currentAssets = currentAssets,
                                    !.complete = (currentAssets = holdings)]
       \/ recon' = CycleFailed(recon)
    /\ UNCHANGED <<wall_bricks, edit_bricks, req, pur, xfer, oracle, mod,
                   cache, info, ub, holdings, load>>

\* mutant: the UPDATE is issued whatever the oracle's answer held
U_Query_emptyAnswerTrusted ==
    /\ recon.pc = "query"
    /\ \E ok \in BOOLEAN :
          recon' = IF ~ok
                   THEN CycleFailed(recon)
                   ELSE IF purchasedBricks(recon.currentAssets) # {}
                   THEN [recon EXCEPT !.pc = "update", !.assetIdsToUpdate =
                             {wall_bricks[c].assetId :
                                  c \in purchasedBricks(recon.currentAssets)}]
                   ELSE CycleDone(recon, "nothing")
    /\ UNCHANGED <<wall_bricks, edit_bricks, req, pur, xfer, oracle, mod,
                   cache, info, ub, holdings, load>>

\* db.any returns or throws: the bricks to mark are chosen and the UPDATE is
\* issued, or there is nothing to update
U_Query ==
    /\ recon.pc = "query"
    /\ \E ok \in BOOLEAN :
          recon' = IF ~ok
                   THEN CycleFailed(recon)
                   ELSE IF /\ purchasedBricks(recon.currentAssets) # {}
                           /\ recon.currentAssets # {}
                   THEN [recon EXCEPT !.pc = "update", !.assetIdsToUpdate =
                             {wall_bricks[c].assetId :
                                  c \in purchasedBricks(recon.currentAssets)}]
                   ELSE CycleDone(recon, "nothing")
    /\ UNCHANGED <<wall_bricks, edit_bricks, req, pur, xfer, oracle, mod,
                   cache, info, ub, holdings, load>>

\* db.none returns or throws: cachedBricks is cleared after the update
U_Update ==
    /\ recon.pc = "update"
    /\ \E ok \in BOOLEAN :
          IF ok
          THEN /\ wall_bricks' = MarkPurchased(wall_bricks, recon.assetIdsToUpdate)
               /\ cache' = ClearBricks(cache)
               /\ recon' = CycleDone([recon EXCEPT !.late =
                             {c \in DOMAIN wall_bricks :
                                 /\ wall_bricks[c].assetId \in recon.assetIdsToUpdate
                                 /\ wall_bricks[c].purchased}],
                                  "updated")
          ELSE /\ recon' = CycleFailed(recon)
               /\ UNCHANGED <<wall_bricks, cache>>
    /\ UNCHANGED <<edit_bricks, req, pur, xfer, oracle, mod, info, ub, holdings, load>>

\* await sleep(5 * 60 * 1000) returns: the next cycle calls the oracle
U_Sleep ==
    /\ recon.pc = "sleep"
    /\ recon' = [recon EXCEPT !.pc = "oracle", !.first = FALSE,
                              !.slept = 5 * 60 * 1000,
                              !.currentAssets = {}, !.assetIdsToUpdate = {},
                              !.complete = FALSE, !.late = {}]
    /\ UNCHANGED <<wall_bricks, edit_bricks, req, pur, xfer, oracle, mod,
                   cache, info, ub, holdings, load>>

updatePurchasedbricks ==
    \/ U_Oracle
    \/ U_Query
    \/ U_Update
    \/ U_Sleep

\* the chain: a purchase transaction the handler built was signed by its
\* buyer and finalized, and the asset of brick c has left the service identity
AssetTransferred(c) ==
    /\ wall_bricks[c].assetId \in holdings
    /\ holdings' = holdings \ {wall_bricks[c].assetId}
    /\ UNCHANGED <<wall_bricks, edit_bricks, req, pur, xfer, oracle, mod,
                   recon, cache, info, ub, load>>

(***************************************************************************)
(* updateWallImage when nothing awaits it, and getWallInfo.                *)
(***************************************************************************)
\* the render without its i-th entry
DropRender(c, i) ==
    [c EXCEPT !.renders = SubSeq(@, 1, i - 1) \o SubSeq(@, i + 1, Len(@))]

\* db.any of render i returns the rows, or throws and the render ends
R_Query(i) ==
    /\ i \in DOMAIN cache.renders
    /\ cache.renders[i].pc = "query"
    /\ \E ok \in BOOLEAN :
          cache' = IF ok
                   THEN [cache EXCEPT !.renders[i] =
                            [pc |-> "file", bricks |-> wall_bricks]]
                   ELSE DropRender(cache, i)
    /\ UNCHANGED <<wall_bricks, edit_bricks, req, pur, xfer, oracle, mod,
                   recon, info, ub, holdings, load>>

\* fs.writeFile of render i returns and the cache is set, or an await of
\* the render throws and the render ends
R_File(i) ==
    /\ i \in DOMAIN cache.renders
    /\ cache.renders[i].pc = "file"
    /\ \E ok \in BOOLEAN :
          cache' = IF ok
                   THEN DropRender(StoreRender(cache, cache.renders[i].bricks), i)
                   ELSE DropRender(cache, i)
    /\ UNCHANGED <<wall_bricks, edit_bricks, req, pur, xfer, oracle, mod,
                   recon, info, ub, holdings, load>>

updateWallImage ==
    \E i \in 1..MaxRenders :
        \/ R_Query(i)
        \/ R_File(i)

IdleInfo ==
    [pc |-> "idle", bricks |-> <<>>, status |-> 0,
     image |-> NoRender, listed |-> NoRender,
     \* history of the request, not read by it: the rows of wall_bricks
     \* when the request arrived, and whether it was answered from the cache
     arrived |-> <<>>, fromCache |-> FALSE]

\* res.status(200).json({ image: this.cachedImage, bricks: this.cachedBricks })
InfoRespond(g, c) ==
    [g EXCEPT !.pc = "done", !.status = 200, !.bricks = <<>>,
              !.image = c.cachedImage, !.listed = c.cachedBricks]

\* the catch of getWallInfo
InfoFailed(g) == [g EXCEPT !.pc = "done", !.status = 500, !.bricks = <<>>]

\* !this.cachedImage || !this.cachedBricks
CacheMissing(c) == ~c.cachedImage.defined \/ ~c.cachedBricks.defined

\* entry: the cache is served at once, or updateWallImage is awaited
G_Start ==
    /\ info.pc = "idle"
    /\ info' = IF CacheMissing(cache)
               THEN [IdleInfo EXCEPT !.pc = "query", !.arrived = wall_bricks]
               ELSE InfoRespond([IdleInfo EXCEPT !.arrived = wall_bricks,
                                                 !.fromCache = TRUE], cache)
    /\ UNCHANGED <<wall_bricks, edit_bricks, req, pur, xfer, oracle, mod,
                   recon, cache, ub, holdings, load>>

\* db.any of the awaited render returns the rows, or throws
G_Query ==
    /\ info.pc = "query"
    /\ \E ok \in BOOLEAN :
          info' = IF ok
                  THEN [info EXCEPT !.pc = "file", !.bricks = wall_bricks]
                  ELSE InfoFailed(info)
    /\ UNCHANGED <<wall_bricks, edit_bricks, req, pur, xfer, oracle, mod,
                   recon, cache, ub, holdings, load>>

\* fs.writeFile of the awaited render returns: the cache is set and served;
\* or an await of the render throws
G_File ==
    /\ info.pc = "file"
    /\ \E ok \in BOOLEAN :
          IF ok
          THEN /\ cache' = StoreRender(cache, info.bricks)
               /\ info' = InfoRespond(info, cache')
          ELSE /\ info' = InfoFailed(info)
               /\ UNCHANGED cache
    /\ UNCHANGED <<wall_bricks, edit_bricks, req, pur, xfer, oracle, mod,
                   recon, ub, holdings, load>>

\* the response has been sent: the next request is followed
G_Finish ==
    /\ info.pc = "done"
    /\ info' = IdleInfo
    /\ UNCHANGED <<wall_bricks, edit_bricks, req, pur, xfer, oracle, mod,
                   recon, cache, ub, holdings, load>>

getWallInfo ==
    \/ G_Start
    \/ G_Query
    \/ G_File
    \/ G_Finish

(***************************************************************************)
(* getUserBricks.                                                          *)
(***************************************************************************)
IdleUserBricks ==
    [pc |-> "idle", solAddress |-> NULL, digitalItems |-> {},
     status |-> 0, error |-> "", bricks |-> {}]

UserBricksRespond(g, status, error, bricks) ==
    [g EXCEPT !.pc = "done", !.status = status, !.error = error, !.bricks = bricks]

\* SELECT x, y, assetId ... FROM wall_bricks WHERE assetId IN ($1:csv)
userBricks(assetIds) ==
    {c \in DOMAIN wall_bricks : wall_bricks[c].assetId \in assetIds}

\* entry to await getDigitalStandardItems: address check
GU_Start ==
    /\ ub.pc = "idle"
    /\ \E solAddress \in Addresses \cup {BadAddress} :
          ub' = IF ~ValidPublicKey(solAddress)
                THEN UserBricksRespond([IdleUserBricks EXCEPT !.solAddress = solAddress],
                                       400, "Invalid SOL address provided.", {})
                ELSE [IdleUserBricks EXCEPT !.pc = "oracle", !.solAddress = solAddress]
    /\ UNCHANGED <<wall_bricks, edit_bricks, req, pur, xfer, oracle, mod,
                   recon, cache, info, holdings, load>>

\* getDigitalStandardItems returns: nothing held, or the SELECT is issued
GU_Oracle ==
    /\ ub.pc = "oracle"
    /\ \E digitalItems \in OracleAnswers :
          ub' = IF digitalItems = {}
                THEN UserBricksRespond(ub, 200, "", {})
                ELSE [ub EXCEPT !.pc = "query", !.digitalItems = digitalItems]
    /\ UNCHANGED <<wall_bricks, edit_bricks, req, pur, xfer, oracle, mod,
                   recon, cache, info, holdings, load>>

\* db.any returns the bricks of the assets, or throws
GU_Query ==
    /\ ub.pc = "query"
    /\ \E ok \in BOOLEAN :
          ub' = IF ok
                THEN UserBricksRespond(ub, 200, "", userBricks(ub.digitalItems))
                ELSE UserBricksRespond(ub, 500, "Internal server error.", {})
    /\ UNCHANGED <<wall_bricks, edit_bricks, req, pur, xfer, oracle, mod,
                   recon, cache, info, holdings, load>>

\* the response has been sent: the next request is followed
GU_Finish ==
    /\ ub.pc = "done"
    /\ ub' = IdleUserBricks
    /\ UNCHANGED <<wall_bricks, edit_bricks, req, pur, xfer, oracle, mod,
                   recon, cache, info, holdings, load>>

getUserBricks ==
    \/ GU_Start
    \/ GU_Query
    \/ GU_Oracle
    \/ GU_Finish

(***************************************************************************)
(* SpecPurchase: purchase requests, from the wall as the catalog load      *)
(* leaves it.  The handler writes nothing, so requests do not affect each  *)
(* other and one is followed at a time.                                    *)
(***************************************************************************)
InitPurchase ==
    /\ wall_bricks = [c \in 1..NumBricks |-> NewBrick(c)]
    /\ edit_bricks = <<>>
    /\ req = [r \in Requests |-> IdleRequest]
    /\ pur = IdlePurchase
    /\ xfer = IdleTransfer
    /\ oracle = IdleOracle
    /\ mod = IdleModify
    /\ recon = InitialRecon
    /\ cache = InitialCache
    /\ info = IdleInfo
    /\ ub = IdleUserBricks
    /\ holdings = {AssetId(c) : c \in 1..NumBricks}
    /\ load = Loaded(NumBricks)

NextPurchase == purchaseBrickSquares(NumBricks)

SpecPurchase == InitPurchase /\ [][NextPurchase]_vars

(***************************************************************************)
(* SpecEdit: uploads and edits served one request at a time (the image     *)
(* tasks of the request still run concurrently), from the wall as the      *)
(* catalog load leaves it.                                                 *)
(***************************************************************************)
InitEdit ==
    /\ wall_bricks = [c \in 1..EditBricks |-> NewBrick(c)]
    /\ edit_bricks = <<>>
    /\ req = [r \in Requests |-> IdleRequest]
    /\ pur = IdlePurchase
    /\ xfer = IdleTransfer
    /\ oracle = IdleOracle
    /\ mod = IdleModify
    /\ recon = InitialRecon
    /\ cache = InitialCache
    /\ info = IdleInfo
    /\ ub = IdleUserBricks
    /\ holdings = {}
    /\ load = Loaded(EditBricks)

NextEdit ==
    \/ modifyUndefinedPurchasedBricks("r1", MaxImages)
    \/ modifyDefinedPurchasedBricks("r1", MaxImages)
    \/ ImageTasks("r1")
    \/ Finish("r1")

SpecEdit == InitEdit /\ [][NextEdit]_vars

(***************************************************************************)
(* SpecRace: edit requests whose handlers overlap at their awaits, on a    *)
(* wall of one brick that was bought and given an image earlier.           *)
(***************************************************************************)
InitRace ==
    /\ wall_bricks = [c \in 1..1 |->
                         [NewBrick(c) EXCEPT !.purchased = TRUE, !.image_location = "img0"]]
    /\ edit_bricks = <<>>
    /\ req = [r \in Requests |-> IdleRequest]
    /\ pur = IdlePurchase
    /\ xfer = IdleTransfer
    /\ oracle = IdleOracle
    /\ mod = IdleModify
    /\ recon = InitialRecon
    /\ cache = InitialCache
    /\ info = IdleInfo
    /\ ub = IdleUserBricks
    /\ holdings = {}
    /\ load = Loaded(1)

NextRace ==
    \E r \in Requests :
        \/ modifyDefinedPurchasedBricks(r, 1)
        \/ ImageTasks(r)
        \/ Finish(r)

SpecRace == InitRace /\ [][NextRace]_vars

(***************************************************************************)
(* SpecTransfer: single builds, each against its own indexer and ledger    *)
(* data.                                                                   *)
(***************************************************************************)
InitTransfer ==
    /\ wall_bricks = [c \in 1..1 |-> NewBrick(c)]
    /\ edit_bricks = <<>>
    /\ req = [r \in Requests |-> IdleRequest]
    /\ pur = IdlePurchase
    /\ xfer = IdleTransfer
    /\ oracle = IdleOracle
    /\ mod = IdleModify
    /\ recon = InitialRecon
    /\ cache = InitialCache
    /\ info = IdleInfo
    /\ ub = IdleUserBricks
    /\ holdings = {AssetId(1)}
    /\ load = Loaded(1)

NextTransfer ==
    \/ T_Start
    \/ T_Proof
    \/ T_Tree
    \/ T_Asset
    \/ T_Pda
    \/ T_Finish

SpecTransfer == InitTransfer /\ [][NextTransfer]_vars

(***************************************************************************)
(* SpecOracle: calls of getDigitalStandardItems, each against the pages    *)
(* the indexer answers with.                                               *)
(***************************************************************************)
InitOracle ==
    /\ wall_bricks = [c \in 1..1 |-> NewBrick(c)]
    /\ edit_bricks = <<>>
    /\ req = [r \in Requests |-> IdleRequest]
    /\ pur = IdlePurchase
    /\ xfer = IdleTransfer
    /\ oracle = IdleOracle
    /\ mod = IdleModify
    /\ recon = InitialRecon
    /\ cache = InitialCache
    /\ info = IdleInfo
    /\ ub = IdleUserBricks
    /\ holdings = {AssetId(1)}
    /\ load = Loaded(1)

NextOracle == getDigitalStandardItems

SpecOracle == InitOracle /\ [][NextOracle]_vars

(***************************************************************************)
(* SpecModify: edit-payment requests on a wall in any state the service    *)
(* leaves a brick in: as loaded, marked purchased by the reconciliation,   *)
(* or purchased with an image after an upload.                             *)
(***************************************************************************)
WallRows(c) ==
    {NewBrick(c),
     [NewBrick(c) EXCEPT !.purchased = TRUE],
     [NewBrick(c) EXCEPT !.purchased = TRUE, !.image_location = "img0"]}

InitModify ==
    /\ wall_bricks \in {w \in [1..EditBricks -> UNION {WallRows(c) : c \in 1..EditBricks}] :
                           \A c \in 1..EditBricks : w[c] \in WallRows(c)}
    /\ edit_bricks = <<>>
    /\ req = [r \in Requests |-> IdleRequest]
    /\ pur = IdlePurchase
    /\ xfer = IdleTransfer
    /\ oracle = IdleOracle
    /\ mod = IdleModify
    /\ recon = InitialRecon
    /\ cache = InitialCache
    /\ info = IdleInfo
    /\ ub = IdleUserBricks
    /\ holdings = {}
    /\ load = Loaded(EditBricks)

NextModify == purchaseBrickModify

SpecModify == InitModify /\ [][NextModify]_vars

(***************************************************************************)
(* SpecReconcile: the reconciliation loop next to upload requests, from    *)
(* the wall as the catalog load leaves it, while bricks are being sold.    *)
(***************************************************************************)
InitReconcile ==
    /\ wall_bricks = [c \in 1..EditBricks |-> NewBrick(c)]
    /\ edit_bricks = <<>>
    /\ req = [r \in Requests |-> IdleRequest]
    /\ pur = IdlePurchase
    /\ xfer = IdleTransfer
    /\ oracle = IdleOracle
    /\ mod = IdleModify
    /\ recon = InitialRecon
    /\ cache = InitialCache
    /\ info = IdleInfo
    /\ ub = IdleUserBricks
    /\ holdings = {AssetId(c) : c \in 1..EditBricks}
    /\ load = Loaded(EditBricks)

NextReconcile ==
    \/ updatePurchasedbricks
    \/ \E c \in DOMAIN wall_bricks : AssetTransferred(c)
    \/ modifyUndefinedPurchasedBricks("r1", 1)
    \/ ImageTasks("r1")
    \/ Finish("r1")

SpecReconcile == InitReconcile /\ [][NextReconcile]_vars

(***************************************************************************)
(* SpecLoop: the reconciliation loop on its own while bricks are being     *)
(* sold.  Every call the loop awaits returns or throws, and its timer      *)
(* fires: the steps of the loop are weakly fair.                           *)
(***************************************************************************)
NextLoop ==
    \/ updatePurchasedbricks
    \/ \E c \in DOMAIN wall_bricks : AssetTransferred(c)

SpecLoop == InitReconcile /\ [][NextLoop]_vars /\ WF_vars(updatePurchasedbricks)

(***************************************************************************)
(* SpecCache: getWallInfo and the renders next to the reconciliation loop  *)
(* and upload requests, on a wall of one brick that has been sold and is   *)
(* not marked yet, while the service identity holds another asset.         *)
(***************************************************************************)
InitCache ==
    /\ wall_bricks = [c \in 1..1 |-> NewBrick(c)]
    /\ edit_bricks = <<>>
    /\ req = [r \in Requests |-> IdleRequest]
    /\ pur = IdlePurchase
    /\ xfer = IdleTransfer
    /\ oracle = IdleOracle
    /\ mod = IdleModify
    /\ recon = InitialRecon
    /\ cache = InitialCache
    /\ info = IdleInfo
    /\ ub = IdleUserBricks
    /\ holdings = {AssetId(2)}
    /\ load = Loaded(1)

NextCache ==
    \/ updateWallImage
    \/ getWallInfo
    \/ updatePurchasedbricks
    \/ modifyUndefinedPurchasedBricks("r1", 1)
    \/ ImageTasks("r1")
    \/ Finish("r1")

SpecCache == InitCache /\ [][NextCache]_vars

(***************************************************************************)
(* SpecUpload: upload requests whose handlers overlap at their awaits, on  *)
(* a wall whose bricks were sold and have no image yet.                    *)
(***************************************************************************)
InitUpload ==
    /\ wall_bricks = [c \in 1..EditBricks |-> NewBrick(c)]
    /\ edit_bricks = <<>>
    /\ req = [r \in Requests |-> IdleRequest]
    /\ pur = IdlePurchase
    /\ xfer = IdleTransfer
    /\ oracle = IdleOracle
    /\ mod = IdleModify
    /\ recon = InitialRecon
    /\ cache = InitialCache
    /\ info = IdleInfo
    /\ ub = IdleUserBricks
    /\ holdings = {}
    /\ load = Loaded(EditBricks)

NextUpload ==
    \E r \in Requests :
        \/ modifyUndefinedPurchasedBricks(r, 1)
        \/ ImageTasks(r)
        \/ Finish(r)

SpecUpload == InitUpload /\ [][NextUpload]_vars

(***************************************************************************)
(* SpecAssembly: a purchase request next to an edit-payment request, on a  *)
(* wall whose bricks were bought and given an image earlier.               *)
(***************************************************************************)
InitAssembly ==
    /\ wall_bricks = [c \in 1..EditBricks |->
                         [NewBrick(c) EXCEPT !.purchased = TRUE, !.image_location = "img0"]]
    /\ edit_bricks = <<>>
    /\ req = [r \in Requests |-> IdleRequest]
    /\ pur = IdlePurchase
    /\ xfer = IdleTransfer
    /\ oracle = IdleOracle
    /\ mod = IdleModify
    /\ recon = InitialRecon
    /\ cache = InitialCache
    /\ info = IdleInfo
    /\ ub = IdleUserBricks
    /\ holdings = {}
    /\ load = Loaded(EditBricks)

NextAssembly ==
    \/ purchaseBrickSquares(1)
    \/ purchaseBrickModify

SpecAssembly == InitAssembly /\ [][NextAssembly]_vars

(***************************************************************************)
(* SpecServe: every handler and the reconciliation loop on a wall of one   *)
(* brick, one request or cycle at a time: what a step writes does not      *)
(* depend on the requests it overlaps with.                                *)
(***************************************************************************)
InitServe ==
    /\ wall_bricks = [c \in 1..1 |-> NewBrick(c)]
    /\ edit_bricks = <<>>
    /\ req = [r \in Requests |-> IdleRequest]
    /\ pur = IdlePurchase
    /\ xfer = IdleTransfer
    /\ oracle = IdleOracle
    /\ mod = IdleModify
    /\ recon = InitialRecon
    /\ cache = InitialCache
    /\ info = IdleInfo
    /\ ub = IdleUserBricks
    /\ holdings = {AssetId(1), AssetId(2)}
    /\ load = Loaded(1)

\* no request is in flight and the reconciliation loop sleeps
Quiet ==
    /\ \A r \in Requests : req[r].pc = "idle"
    /\ pur.pc = "idle"
    /\ mod.pc = "idle"
    /\ info.pc = "idle"
    /\ ub.pc = "idle"
    /\ recon.pc = "sleep"

NextServe ==
    \/ (Quiet \/ recon.pc # "sleep") /\ updatePurchasedbricks
    \/ (Quiet \/ pur.pc # "idle") /\ purchaseBrickSquares(1)
    \/ (Quiet \/ mod.pc # "idle") /\ purchaseBrickModify
    \/ (Quiet \/ ub.pc # "idle") /\ getUserBricks
    \/ (Quiet \/ info.pc # "idle") /\ getWallInfo
    \/ (Quiet \/ req["r1"].pc # "idle") /\ modifyUndefinedPurchasedBricks("r1", 1)
    \/ (Quiet \/ req["r1"].pc # "idle") /\ modifyDefinedPurchasedBricks("r1", 1)
    \/ ImageTasks("r1")
    \/ Finish("r1")
    \/ Quiet /\ \E c \in DOMAIN wall_bricks : AssetTransferred(c)

SpecServe == InitServe /\ [][NextServe]_vars

(***************************************************************************)
(* SpecLoad: the service is started on an empty table with a first         *)
(* catalog, loads it, serves uploads, edits and the reconciliation loop    *)
(* one at a time, is stopped and started again with a catalog that may     *)
(* have been changed in between, and loads that.  The run is followed to   *)
(* the end of the second load.                                             *)
(***************************************************************************)
\* the catalogs of the first start
FirstCatalogs == UNION {[1..n -> CatalogEntries] : n \in 1..FirstCatalog}

\* the asset ids a catalog names
CatalogAssets(bricksData) ==
    {bricksData[k].assetId : k \in DOMAIN bricksData} \ {0}

InitLoad ==
    /\ wall_bricks = <<>>
    /\ edit_bricks = <<>>
    /\ req = [r \in Requests |-> IdleRequest]
    /\ pur = IdlePurchase
    /\ xfer = IdleTransfer
    /\ oracle = IdleOracle
    /\ mod = IdleModify
    /\ recon = InitialRecon
    /\ cache = InitialCache
    /\ info = IdleInfo
    /\ ub = IdleUserBricks
    /\ \E bricksData \in FirstCatalogs :
          /\ load = StartLoad(bricksData, <<>>, FALSE)
          /\ holdings = CatalogAssets(bricksData)

\* the process is stopped while nothing is in flight and started again:
\* the tables stay, the objects of the process are constructed anew, the
\* catalog file may name other bricks, whose assets the service identity holds
Restart ==
    /\ Quiet
    /\ load.pc = "loaded" /\ load.tasks = <<>>
    /\ ~load.reloaded
    /\ \E bricksData \in Catalogs :
          /\ load' = StartLoad(bricksData, load.rows, TRUE)
          /\ holdings' = holdings \cup
                (CatalogAssets(bricksData)
                    \ {wall_bricks[c].assetId : c \in DOMAIN wall_bricks})
    /\ req' = [r \in Requests |-> IdleRequest]
    /\ recon' = InitialRecon
    /\ cache' = InitialCache
    /\ UNCHANGED <<wall_bricks, edit_bricks, pur, xfer, oracle, mod, info, ub>>

\* api.start() follows the awaited load (index.ts); requests are followed
\* between the first load and the restart
Serving == load.pc = "loaded" /\ ~load.reloaded

NextLoad ==
    \/ loadBricksFromJSON
    \/ Serving /\ (Quiet \/ recon.pc # "sleep") /\ updatePurchasedbricks
    \/ Serving /\ (Quiet \/ req["r1"].pc # "idle")
               /\ modifyUndefinedPurchasedBricks("r1", 1)
    \/ Serving /\ (Quiet \/ req["r1"].pc # "idle")
               /\ modifyDefinedPurchasedBricks("r1", 1)
    \/ Serving /\ ImageTasks("r1")
    \/ Serving /\ Finish("r1")
    \/ Serving /\ Quiet /\ \E c \in DOMAIN wall_bricks : AssetTransferred(c)
    \/ Restart

SpecLoad == InitLoad /\ [][NextLoad]_vars

(***************************************************************************)
(* The claims.                                                             *)
(***************************************************************************)

\* the assets whose ownership a transaction transfers
TransferredAssets(tx) ==
    {tx.instructions[n].assetId : n \in
        {m \in DOMAIN tx.instructions : tx.instructions[m].programId = "Bubblegum"}}

\* the transactions of the response that transfer the asset of brick c
TransactionsFor(c) ==
    {j \in DOMAIN pur.response : AssetId(c) \in TransferredAssets(pur.response[j])}

\* every transaction the request has built so far
BuiltTransactions ==
    Range(pur.transactions) \cup Range(pur.response)
    \cup {pur.builds[k].result : k \in {j \in DOMAIN pur.builds : pur.builds[j].stage = "done"
                                            /\ pur.builds[j].result # NoTransaction}}

\* the rows of edit_bricks that hold signature s
EditRecords(s) == {i \in DOMAIN edit_bricks : edit_bricks[i].transaction_hash = s}

(* C1 (stated as claimed; SpecRace): of the requests that bear one          *)
(* transaction signature, at most one changes a brick's image_location,   *)
(* and edit_bricks never holds a signature twice.                          *)
C1_SignatureAuthorizesOneEdit ==
    /\ \A r1, r2 \in Requests :
          (/\ r1 # r2
           /\ req[r1].kind = "defined" /\ req[r2].kind = "defined"
           /\ req[r1].signature = req[r2].signature
           /\ req[r1].wrote # {})
          => req[r2].wrote = {}
    /\ \A s \in Signatures : Cardinality(EditRecords(s)) <= 1

(* C2 (SpecEdit): an edit request that answers 200 has recorded its         *)
(* signature; a request that arrives when its signature is already        *)
(* recorded never gets past the replay check, updates no brick row, adds  *)
(* no edit record, is never answered 200, and once it has passed the      *)
(* checks that precede the replay check it is answered "Transaction has   *)
(* already been used." (or 500 when the replay query itself fails).       *)
C2_ReplayRejected ==
    \A r \in Requests :
        /\ (req[r].kind = "defined" /\ req[r].status = 200)
           => (req[r].recorded /\ EditRecords(req[r].signature) # {})
        /\ (req[r].kind = "defined" /\ req[r].usedAtStart)
           => /\ req[r].pc \notin {"fetch", "write", "insert"}
              /\ req[r].tasks = <<>>
              /\ req[r].wrote = {}
              /\ ~req[r].recorded
              /\ req[r].status # 200
              /\ Cardinality(EditRecords(req[r].signature)) = 1
              /\ (req[r].pc = "done" /\ req[r].asked /\ req[r].lacking = {})
                 => \/ req[r].status = 400
                       /\ req[r].error = "Transaction has already been used."
                    \/ req[r].status = 500

C2_Witness ==
    \E r \in Requests :
        /\ req[r].kind = "defined" /\ req[r].usedAtStart
        /\ req[r].pc = "done" /\ req[r].status = 400
        /\ req[r].error = "Transaction has already been used."
        /\ \E c \in DOMAIN wall_bricks : wall_bricks[c].image_location \notin {NULL, "img0"}

(* C3 (SpecEdit): an upload or edit request starts its image tasks, and so  *)
(* writes image_location, only after the oracle returned the asset of     *)
(* every target brick; when the oracle's answer lacks a target asset the  *)
(* request is answered 400 and updates no row.                             *)
C3_WritesOnlyWithOracleProof ==
    \A r \in Requests :
        /\ (req[r].tasks # <<>> \/ req[r].wrote # {} \/ req[r].recorded)
           => (req[r].asked /\ req[r].lacking = {})
        /\ (req[r].asked /\ req[r].lacking # {})
           => /\ req[r].pc = "done"
              /\ req[r].status = 400
              /\ req[r].error = "Address does not hold the required NFTs for these bricks."
              /\ req[r].tasks = <<>> /\ req[r].wrote = {} /\ ~req[r].recorded

C3_Witness ==
    \E r \in Requests :
        /\ req[r].kind = "defined" /\ req[r].asked /\ req[r].lacking = {}
        /\ Cardinality(req[r].wrote) = 2
        /\ req[r].status = 200

C5_ThirdPartyBrickExcluded ==
    (pur.pc = "done" /\ pur.status = 200) =>
        \A k \in DOMAIN pur.bricks :
            pur.owners[k] \notin {pur.solAddress, SERVICE}
            => TransactionsFor(pur.bricks[k]) = {}

(* C6 (SpecPurchase): when the rows fetched for the coordinates differ in   *)
(* number from the coordinates, the request is answered 400 "One or more  *)
(* bricks do not exist." and has fetched no blockhash, started no build   *)
(* and built no transaction.                                               *)
C6_UnknownBrickFailsFast ==
    (pur.queried /\ Len(SelectBricks(pur.coordinates)) # Len(pur.coordinates)) =>
        /\ pur.pc = "done"
        /\ pur.status = 400
        /\ pur.error = "One or more bricks do not exist."
        /\ pur.fetches = 0
        /\ pur.recentBlockhash = NULL
        /\ pur.started = {}
        /\ pur.owners = <<>>
        /\ BuiltTransactions = {}

C6_Witness ==
    /\ pur.queried /\ pur.pc = "done" /\ pur.status = 400
    /\ \E k \in DOMAIN pur.coordinates : pur.coordinates[k] \notin DOMAIN wall_bricks
    /\ \E k \in DOMAIN pur.coordinates : pur.coordinates[k] \in DOMAIN wall_bricks

(* C7 (SpecPurchase): a request calls getLatestBlockhash at most once, only *)
(* after the rows passed the count check and before any build starts, and *)
(* every transaction it builds carries the blockhash that call returned.  *)
C7_OneBlockhashPerRequest ==
    /\ pur.fetches <= 1
    /\ pur.fetches = 1
       => (pur.queried /\ Len(SelectBricks(pur.coordinates)) = Len(pur.coordinates))
    /\ (pur.started # {} \/ pur.status = 200)
       => (pur.fetches = 1 /\ pur.recentBlockhash \in Blockhashes)
    /\ \A tx \in BuiltTransactions : tx.recentBlockhash = pur.recentBlockhash

C7_Witness ==
    /\ pur.pc = "done" /\ pur.status = 200
    /\ Len(pur.bricks) > chunkSize
    /\ Len(pur.response) = Len(pur.bricks)
    /\ pur.outOfOrder

(* C8 (SpecPurchase): every transaction a request builds holds exactly, in  *)
(* this order: the compute-unit limit, the compute-unit price, the        *)
(* transfer of PRICE_PER_BRICK from the purchaser to FUNDS_DESTINATION,   *)
(* the transfer of 1 lamport from the service identity to                 *)
(* FUNDS_DESTINATION, the transfer of a target brick's asset to the       *)
(* purchaser, and the transfer of JITO_FEE from the purchaser to an       *)
(* address of JITO_TIP_ACCOUNTS.                                           *)
C8_InstructionOrder ==
    \A tx \in BuiltTransactions :
        LET ins == tx.instructions
        IN  /\ Len(ins) = 6
            /\ ins[1].programId = "ComputeBudget" /\ ins[1].type = "setComputeUnitLimit"
            /\ ins[2].programId = "ComputeBudget" /\ ins[2].type = "setComputeUnitPrice"
            /\ ins[3].programId = "System" /\ ins[3].type = "transfer"
            /\ ins[3].fromPubkey = pur.solAddress /\ ins[3].toPubkey = FUNDS_DESTINATION
            /\ ins[3].lamports = 250000000
            /\ ins[4].programId = "System" /\ ins[4].type = "transfer"
            /\ ins[4].fromPubkey = SERVICE /\ ins[4].toPubkey = FUNDS_DESTINATION
            /\ ins[4].lamports = 1
            /\ ins[5].programId = "Bubblegum" /\ ins[5].type = "transfer"
            /\ ins[5].toPubkey = pur.solAddress
            /\ ins[5].assetId \in {AssetId(pur.bricks[k]) : k \in DOMAIN pur.bricks}
            /\ ins[6].programId = "System" /\ ins[6].type = "transfer"
            /\ ins[6].fromPubkey = pur.solAddress /\ ins[6].toPubkey \in JITO_TIP_ACCOUNTS
            /\ ins[6].lamports = 30000

C8_Witness ==
    /\ pur.pc = "done" /\ pur.status = 200
    /\ \E j \in DOMAIN pur.response :
          pur.response[j].instructions[6].toPubkey =
              "3AVi9Tg9Uo68tJfuvoKvqKNWKkC5wPdSSdeBnizKZ6jT"

(* C9 (SpecPurchase): once a build has thrown, the request is over: it is   *)
(* answered 400 with that error, the response holds no transaction (also  *)
(* none of an earlier chunk), and no build of a later chunk was started.  *)
C9_HardErrorAbortsBatch ==
    /\ pur.failedAt # 0 =>
          /\ pur.pc = "done"
          /\ pur.status = 400
          /\ pur.error = pur.failure
          /\ pur.response = <<>>
          /\ \A k \in pur.started :
                (k - 1) \div chunkSize <= (pur.failedAt - 1) \div chunkSize
    /\ pur.status # 200 => pur.response = <<>>

C9_Witness ==
    /\ pur.failedAt > chunkSize
    /\ pur.transactions # <<>>
    /\ pur.pc = "done" /\ pur.status = 400 /\ pur.response = <<>>

RECURSIVE ExpectedAssets(_)
\* the assets of the bricks at positions k..Len(bricks), in that order,
\* without those the purchaser owns
ExpectedAssets(k) ==
    IF k > Len(pur.bricks) THEN <<>>
    ELSE IF pur.owners[k] = pur.solAddress THEN ExpectedAssets(k + 1)
    ELSE <<AssetId(pur.bricks[k])>> \o ExpectedAssets(k + 1)

(* C10 (SpecPurchase): the transactions of a 200 response follow the order  *)
(* of the fetched bricks: they are that sequence without the bricks the   *)
(* purchaser owns, whatever order the builds of a chunk returned in.      *)
C10_OrderOfFetchedBricks ==
    (pur.pc = "done" /\ pur.status = 200) =>
        /\ Len(pur.response) = Len(ExpectedAssets(1))
        /\ \A j \in DOMAIN pur.response :
              TransferredAssets(pur.response[j]) = {ExpectedAssets(1)[j]}

C10_Witness ==
    /\ pur.pc = "done" /\ pur.status = 200
    /\ pur.outOfOrder
    /\ Len(pur.bricks) > chunkSize
    /\ pur.owners[2] = pur.solAddress
    /\ Len(pur.response) = Len(pur.bricks) - 1

(* C11 (stated as claimed; SpecTransfer): resolving the transfer of an      *)
(* asset whose owner is already the target address never throws and        *)
(* returns no transfer instruction, whatever the proof and the tree        *)
(* account are.                                                             *)
C11_OwnedAssetNeverThrows ==
    (/\ xfer.pc # "idle"
     /\ xfer.rpcAsset.present
     /\ xfer.rpcAsset.owner = xfer.newOwner)
    => /\ xfer.pc # "thrown"
       /\ xfer.pc = "returned" => xfer.transferInstruction = NoInstruction

(* C12 (stated as claimed; SpecTransfer): for a proof of N nodes and a      *)
(* canopy of depth d, the proof path of the returned transfer instruction  *)
(* has N - d nodes when d < N and none when d >= N.                         *)
C12_ProofPathLength ==
    (xfer.pc = "returned" /\ xfer.transferInstruction # NoInstruction) =>
        LET N == Len(xfer.assetProof.proof)
            d == xfer.merkleTreeAccountRaw.canopyDepth
        IN  Len(xfer.anchorRemainingAccounts) = IF d < N THEN N - d ELSE 0

(* C13 (SpecTransfer): once getAssetProof has returned a missing or empty   *)
(* proof the call has thrown "Proof is empty", once getAccountInfo has     *)
(* returned no account for the tree it has thrown "Failed to fetch merkle  *)
(* tree", and a call that has thrown has produced no transfer instruction  *)
(* and its build no transaction.                                            *)
C13_ProofOrTreeUnavailableThrows ==
    /\ (/\ xfer.pc \notin {"idle", "proof"}
        /\ (~xfer.assetProof.present \/ Len(xfer.assetProof.proof) = 0))
       => (xfer.pc = "thrown" /\ xfer.error = "Error: Proof is empty")
    /\ (/\ xfer.pc \notin {"idle", "proof", "tree"}
        /\ xfer.assetProof.present /\ Len(xfer.assetProof.proof) > 0
        /\ ~xfer.merkleTreeAccountRaw.present)
       => (xfer.pc = "thrown" /\ xfer.error = "Error: Failed to fetch merkle tree")
    /\ xfer.pc = "thrown"
       => /\ xfer.transferInstruction = NoInstruction
          /\ xfer.anchorRemainingAccounts = <<>>
          /\ xfer.transaction = NoTransaction

C13_Witness ==
    /\ xfer.pc = "thrown"
    /\ xfer.error = "Error: Failed to fetch merkle tree"
    /\ Len(xfer.assetProof.proof) = MaxProof
    /\ xfer.rpcAsset.present /\ xfer.rpcAsset.owner = SERVICE

(* C14 (stated as claimed; SpecPurchase): a request whose build failed on   *)
(* a missing proof, a missing tree account or a failed indexer request is  *)
(* answered with a 5xx status.                                              *)
C14_ExternalFailureIs5xx ==
    (/\ pur.pc = "done"
     /\ pur.failure \in {"Error: Proof is empty",
                         "Error: Failed to fetch merkle tree",
                         "TypeError"})
    => pur.status >= 500

\* the pages 1..n as requests
PageRequests(n) == [k \in 1..n |-> [page |-> k, limit |-> limit]]

\* the list the caller gets for the items `items`: those neither burnt nor
\* uncompressed, in their order
Returned(items) ==
    LET kept == SelectSeq(items, LAMBDA i : ~i.burnt /\ i.compressed)
    IN  [k \in DOMAIN kept |-> [assetId |-> kept[k].id]]

(* C15 (SpecOracle): the requests of a call are for pages 1, 2, 3, ... in   *)
(* order, each with the limit; a request follows only pages whose total    *)
(* equalled the limit; and a call that ends without a failed page ends on  *)
(* the first page whose total is below the limit and returns the filtered  *)
(* items of all its pages, that page included, in order.                   *)
C15_PaginationStopsAfterShortPage ==
    /\ oracle.requests = PageRequests(Len(oracle.requests))
    /\ oracle.pc \in {"fetch", "json"}
       => /\ Len(oracle.requests) = Len(oracle.totals) + 1
          /\ \A k \in DOMAIN oracle.totals : oracle.totals[k] = limit
    /\ (oracle.pc = "returned" /\ oracle.failure = "")
       => /\ Len(oracle.requests) = Len(oracle.totals)
          /\ \A k \in DOMAIN oracle.totals :
                IF k < Len(oracle.totals) THEN oracle.totals[k] = limit
                ELSE oracle.totals[k] < limit
          /\ oracle.result = Returned(oracle.fetched)

C15_Witness ==
    /\ oracle.pc = "returned" /\ oracle.failure = ""
    /\ oracle.totals = <<limit, 1>>
    /\ Len(oracle.result) = 3

(* C16 (SpecOracle): a call in which a page failed has returned: it sent    *)
(* no request after the failed one, and its result is the filtered items   *)
(* of the pages received before it.                                         *)
C16_FailedPageReturnsAccumulated ==
    oracle.failure # "" =>
        /\ oracle.pc = "returned"
        /\ Len(oracle.requests) = Len(oracle.totals) + 1
        /\ oracle.requests = PageRequests(Len(oracle.totals) + 1)
        /\ \A k \in DOMAIN oracle.totals : oracle.totals[k] = limit
        /\ oracle.result = Returned(oracle.fetched)

C16_Witness ==
    /\ oracle.pc = "returned" /\ oracle.failure = "error"
    /\ Len(oracle.requests) = 2
    /\ Len(oracle.result) = 1 /\ Len(oracle.fetched) = limit

(* C17 (SpecOracle): the list a call returns names exactly the items of     *)
(* the received pages that are not burnt and are compressed, each once     *)
(* and in the order received; before it returns it holds nothing else.     *)
C17_UnburntCompressedOnly ==
    /\ oracle.pc = "returned" =>
          /\ Len(oracle.result) =
                Cardinality({k \in DOMAIN oracle.fetched :
                                ~oracle.fetched[k].burnt /\ oracle.fetched[k].compressed})
          /\ \A j \in DOMAIN oracle.result :
                \E k \in DOMAIN oracle.fetched :
                    /\ oracle.fetched[k].id = oracle.result[j].assetId
                    /\ ~oracle.fetched[k].burnt /\ oracle.fetched[k].compressed
          /\ \A k \in DOMAIN oracle.fetched :
                (~oracle.fetched[k].burnt /\ oracle.fetched[k].compressed)
                => Cardinality({j \in DOMAIN oracle.result :
                                   oracle.result[j].assetId = oracle.fetched[k].id}) = 1
          /\ \A i, j \in DOMAIN oracle.result :
                i < j => oracle.result[i].assetId < oracle.result[j].assetId
    /\ \A k \in DOMAIN oracle.compressedNFTs :
          ~oracle.compressedNFTs[k].burnt /\ oracle.compressedNFTs[k].compressed

C17_Witness ==
    /\ oracle.pc = "returned"
    /\ Len(oracle.result) = 1
    /\ \E k \in DOMAIN oracle.fetched : oracle.fetched[k].burnt /\ oracle.fetched[k].compressed
    /\ \E k \in DOMAIN oracle.fetched : ~oracle.fetched[k].burnt /\ ~oracle.fetched[k].compressed

\* the target bricks of the edit-payment request that are not marked
\* purchased, and those that have no image
NotPurchased == {c \in Range(mod.coordinates) : ~wall_bricks[c].purchased}
WithoutImage == {c \in Range(mod.coordinates) : wall_bricks[c].image_location = NULL}

\* the rows of all the coordinates were returned
AllBricksFound ==
    /\ mod.queried
    /\ Range(mod.coordinates) \subseteq DOMAIN wall_bricks
    /\ Len(mod.bricks) = Len(mod.coordinates)

C19_OneAggregatedPayment ==
    (mod.pc = "done" /\ mod.status = 200) =>
        /\ Len(mod.response) = 1
        /\ NotPurchased = {} /\ WithoutImage = {}
        /\ LET tx == mod.response[1]
               payments == {n \in DOMAIN tx.instructions :
                               /\ tx.instructions[n].programId = "System"
                               /\ tx.instructions[n].toPubkey = FUNDS_DESTINATION}
           IN  /\ tx.feePayer = mod.solAddress
               /\ Cardinality(payments) = 1
               /\ \A n \in payments :
                     /\ tx.instructions[n].type = "transfer"
                     /\ tx.instructions[n].fromPubkey = mod.solAddress
                     /\ tx.instructions[n].lamports = 100000000 * Len(mod.coordinates)

C19_Witness ==
    /\ mod.pc = "done" /\ mod.status = 200
    /\ Len(mod.coordinates) = 2
    /\ mod.response[1].instructions[3].lamports = 200000000

(* C20 (SpecEdit): while fetchTransaction is looking a transaction up it    *)
(* has had fewer than 15 empty results and has slept 2 seconds after each; *)
(* it has left the loop once a transaction was returned; and a request     *)
(* answered "Transaction not found." has made 15 attempts, none of which   *)
(* returned a transaction, is answered 400, and has started no image       *)
(* task, updated no brick row and added no edit record.                    *)
C20_BoundedTransactionLookup ==
    \A r \in Requests :
        /\ req[r].attempt <= 15
        /\ req[r].pc = "fetch"
           => /\ req[r].attempt < 15
              /\ req[r].waited = 2000 * req[r].attempt
              /\ ~req[r].found
        /\ (req[r].kind = "defined" /\ (req[r].tasks # <<>> \/ req[r].wrote # {}
                                          \/ req[r].recorded))
           => req[r].found
        /\ req[r].error = "Transaction not found."
           => /\ req[r].pc = "done"
              /\ req[r].status = 400
              /\ req[r].attempt = 15
              /\ req[r].waited = 30000
              /\ ~req[r].found
              /\ req[r].tasks = <<>>
              /\ req[r].wrote = {}
              /\ ~req[r].recorded

C20_Witness ==
    \E r \in Requests :
        /\ req[r].pc = "done" /\ req[r].status = 400
        /\ req[r].error = "Transaction not found."
        /\ req[r].attempt = 15
        /\ Len(req[r].images) = 2

(* C21 (SpecEdit): an edit request starts its image tasks, updates a brick  *)
(* row, adds an edit record or is answered 200 only if the transaction it  *)
(* fetched holds a system transfer of exactly PRICE_PER_BRICK_EDIT times   *)
(* the number of images from the claimed address to FUNDS_DESTINATION and  *)
(* has the claimed address as its first account key; a request whose       *)
(* fetched transaction fails either test is answered 400 and has started   *)
(* no image task, updated no brick row and added no edit record.           *)
C21_PaymentValidated ==
    \A r \in Requests :
        req[r].kind = "defined" =>
            /\ (\/ req[r].tasks # <<>>
                \/ req[r].wrote # {}
                \/ req[r].recorded
                \/ req[r].pc \in {"write", "insert"}
                \/ req[r].status = 200)
               => (req[r].found /\ req[r].paid /\ req[r].payer)
            /\ (req[r].found /\ ~(req[r].paid /\ req[r].payer))
               => /\ req[r].pc = "done"
                  /\ req[r].status = 400
                  /\ req[r].error = IF req[r].paid
                                    THEN "Transaction not signed by the provided SOL address."
                                    ELSE "Invalid transaction: incorrect SOL payment."
                  /\ req[r].tasks = <<>>
                  /\ req[r].wrote = {}
                  /\ ~req[r].recorded

C21_Witness ==
    \E r \in Requests :
        /\ req[r].kind = "defined"
        /\ Len(req[r].images) = 2
        /\ req[r].paid /\ req[r].payer
        /\ req[r].recorded
        /\ req[r].status = 200

(* C22 (SpecReconcile): when a cycle of the reconciliation loop has ended  *)
(* without an error and the oracle reported all the service identity held, *)
(* every brick whose asset the oracle did not report is marked purchased,  *)
(* and the cycle marked no brick whose asset the oracle reported.          *)
C22_CycleMarksSoldBricks ==
    (recon.pc = "sleep" /\ recon.outcome \in {"updated", "nothing"} /\ recon.complete)
    => /\ \A c \in DOMAIN wall_bricks :
             wall_bricks[c].assetId \notin recon.currentAssets
             => wall_bricks[c].purchased
       /\ recon.assetIdsToUpdate \cap recon.currentAssets = {}

(* C23 (SpecLoop): the reconciliation loop is always at one of its four    *)
(* awaits; a cycle other than the first runs only after a sleep of five    *)
(* minutes; and the loop sleeps again and again and starts a cycle again   *)
(* and again, whether a cycle ended normally or in the catch.              *)
C23_LoopNeverExits ==
    /\ [](recon.pc \in {"oracle", "query", "update", "sleep"})
    /\ [](recon.pc \in {"oracle", "query", "update"}
            => (recon.first \/ recon.slept = 300000))
    /\ [](recon.pc = "sleep" => (recon.slept = 0 /\ recon.outcome # "none"))
    /\ []<>(recon.pc = "sleep")
    /\ []<>(recon.pc = "oracle")

C23_Witness ==
    /\ recon.pc = "oracle"
    /\ ~recon.first
    /\ recon.slept = 300000
    /\ recon.outcome = "error"

(* C26 (SpecReconcile): a brick an upload request has written is purchased *)
(* and holds the image of that request, and a brick with an image is       *)
(* purchased, whichever way the steps of the upload and of the             *)
(* reconciliation cycle interleave.                                        *)
C26_UploadSurvivesReconciliation ==
    \A c \in DOMAIN wall_bricks :
        /\ wall_bricks[c].image_location # NULL => wall_bricks[c].purchased
        /\ \A r \in Requests :
              c \in req[r].wrote
              => /\ wall_bricks[c].purchased
                 /\ wall_bricks[c].image_location = r

C26_Witness ==
    /\ recon.pc = "sleep" /\ recon.outcome = "updated"
    /\ \E c \in recon.late :
          /\ c \in req["r1"].wrote
          /\ wall_bricks[c].assetId \in recon.assetIdsToUpdate
          /\ wall_bricks[c].purchased
          /\ wall_bricks[c].image_location = "r1"

(* C29 (SpecReconcile): a brick is marked purchased only when its asset    *)
(* has left the holdings of the service identity on chain.                 *)
C29_PurchasedOnlyWhenSold ==
    \A c \in DOMAIN wall_bricks :
        wall_bricks[c].purchased => wall_bricks[c].assetId \notin holdings

(* C24 (SpecCache): a getWallInfo request answered 200 shows at least what *)
(* the store held when the request arrived: every brick that was purchased *)
(* then is listed as purchased, and every image the wall showed then is in *)
(* the render.                                                             *)
C24_WallInfoFreshAfterWrite ==
    (info.pc = "done" /\ info.status = 200)
    => \A c \in DOMAIN info.arrived :
          /\ info.arrived[c].purchased => info.listed.of[c]
          /\ RenderedImage(info.arrived).of[c] # NULL
             => info.image.of[c] = RenderedImage(info.arrived).of[c]

C30_WhoHasSigned ==
    /\ \A k \in DOMAIN pur.response :
          /\ SERVICE \in pur.response[k].signatures
          /\ pur.response[k].feePayer = pur.solAddress
          /\ pur.solAddress \notin pur.response[k].signatures
    /\ \A k \in DOMAIN mod.response :
          /\ mod.response[k].feePayer = mod.solAddress
          /\ mod.response[k].signatures = {}

(* C28 (stated as claimed; SpecUpload): a step that changes the            *)
(* image_location of a brick that already has an image is a step of a      *)
(* modifyDefinedPurchasedBricks request whose payment transaction was      *)
(* validated; no step of modifyUndefinedPurchasedBricks overwrites an      *)
(* image, also when two uploads for the same brick overlap.                *)
C28_ImageOverwrittenOnlyByPaidEdit ==
    [][\A c \in DOMAIN wall_bricks :
          (/\ wall_bricks[c].image_location # NULL
           /\ wall_bricks'[c].image_location # wall_bricks[c].image_location)
          => \E r \in Requests :
                /\ req[r].kind = "defined"
                /\ req[r].paid
                /\ req'[r] # req[r]]_vars

(* C27 (SpecLoad): the rows of wall_bricks have pairwise distinct          *)
(* coordinates, and every row ever inserted is still in the table with the *)
(* coordinate and the asset id it was inserted with: neither a reload of   *)
(* the catalog nor the reconciliation loop, an upload or an edit changes   *)
(* them.                                                                   *)
C27_CoordinatesUniqueAssetFixed ==
    /\ \A i, j \in DOMAIN load.rows :
          i # j => load.rows[i].x # load.rows[j].x
    /\ DOMAIN wall_bricks = {load.rows[i].x : i \in DOMAIN load.rows}
    /\ \A i \in DOMAIN load.rows :
          wall_bricks[load.rows[i].x].assetId = load.rows[i].assetId

\* witness: after a restart the changed catalog has been loaded into a
\* table that holds a brick marked purchased, with an image and a paid edit
C27_Witness ==
    /\ load.reloaded /\ load.pc = "loaded" /\ load.tasks = <<>>
    /\ Len(load.rows) = 2
    /\ Len(edit_bricks) > 0
    /\ \E c \in DOMAIN wall_bricks :
          /\ wall_bricks[c].purchased
          /\ wall_bricks[c].image_location # NULL

\* the step in which handler record h (h2 after the step) takes up a request
\* with a malformed address answers it with status 400 at once: the record
\* goes from idle to done with no await in between
RejectedAtEntry(h, h2) ==
    (h2.solAddress = BadAddress /\ h2 # h)
    => /\ h.pc = "idle"
       /\ h2.pc = "done"
       /\ h2.status = 400
       /\ h2.error = "Invalid SOL address provided."

(* C31 (SpecServe): a request with a malformed solAddress to               *)
(* purchaseBrickSquares, purchaseBrickModify, modifyDefinedPurchasedBricks, *)
(* modifyUndefinedPurchasedBricks or getUserBricks is answered with status *)
(* 400 in the step in which it arrives, before any store query or network  *)
(* call and without a retry, and that step changes neither the tables nor  *)
(* the cache nor any other request.                                        *)
C31_MalformedAddressRejectedFirst ==
    /\ [][/\ RejectedAtEntry(pur, pur')
          /\ RejectedAtEntry(mod, mod')
          /\ RejectedAtEntry(ub, ub')
          /\ \A r \in Requests : RejectedAtEntry(req[r], req'[r])
          /\ (\/ pur'.solAddress = BadAddress /\ pur' # pur
              \/ mod'.solAddress = BadAddress /\ mod' # mod
              \/ ub'.solAddress = BadAddress /\ ub' # ub
              \/ \E r \in Requests : req'[r].solAddress = BadAddress /\ req'[r] # req[r])
             => UNCHANGED <<wall_bricks, edit_bricks, cache, recon, holdings,
                            xfer, oracle, info, load>>]_vars
    /\ [](pur.solAddress = BadAddress
            => ~pur.queried /\ pur.fetches = 0 /\ pur.started = {} /\ pur.response = <<>>)
    /\ [](mod.solAddress = BadAddress
            => ~mod.queried /\ mod.oracleCalls = 0 /\ mod.fetches = 0)
    /\ [](ub.solAddress = BadAddress => ub.digitalItems = {} /\ ub.bricks = {})
    /\ [](\A r \in Requests :
            req[r].solAddress = BadAddress
            => /\ ~req[r].asked /\ req[r].attempt = 0 /\ req[r].waited = 0
               /\ req[r].tasks = <<>> /\ req[r].wrote = {} /\ ~req[r].recorded)

\* witness: an edit request with a malformed address has been answered 400
\* on a wall whose brick has been sold and marked
C31_Witness ==
    /\ req["r1"].kind = "defined"
    /\ req["r1"].solAddress = BadAddress
    /\ req["r1"].status = 400
    /\ \E c \in DOMAIN wall_bricks : wall_bricks[c].purchased

(* C32 (stated as claimed, weakened to "eventually"; SpecLoop): when a     *)
(* cycle of the reconciliation loop starts after the asset of a brick has  *)
(* left the service identity, a cycle ends with the brick marked           *)
(* purchased, unless a call of the loop failed or the oracle's answer was  *)
(* cut short.                                                              *)
C32_SoldBrickMarkedByNextCycle ==
    \A c \in 1..EditBricks :
        [](/\ recon.pc = "oracle"
           /\ wall_bricks[c].assetId \notin holdings
           => <>(/\ recon.pc = "sleep"
                 /\ \/ wall_bricks[c].purchased
                    \/ recon.outcome = "error"
                    \/ ~recon.complete))

(* C33 (SpecTransfer): for a proof of N nodes and a canopy of depth        *)
(* d <= N, the proof path computed after the tree account was read, and    *)
(* handed to the transfer instruction, is the first N - d nodes of the     *)
(* proof in their order, each a non-signer, non-writable account.          *)
C33_ProofPathIsProofPrefix ==
    LET proof == xfer.assetProof.proof
        N == Len(proof)
        d == xfer.merkleTreeAccountRaw.canopyDepth
        prefix == [n \in 1..(N - d) |->
                      [pubkey |-> proof[n], isSigner |-> FALSE, isWritable |-> FALSE]]
    IN  /\ (xfer.pc \in {"asset", "pda", "returned"} /\ d <= N)
           => xfer.proofPath = prefix
        /\ (xfer.pc = "returned" /\ xfer.transferInstruction # NoInstruction /\ d <= N)
           => xfer.anchorRemainingAccounts = prefix

\* witness: a transfer instruction was returned for a proof of MaxProof
\* nodes on a tree whose canopy caches some but not all of them
C33_Witness ==
    /\ xfer.pc = "returned"
    /\ xfer.transferInstruction # NoInstruction
    /\ Len(xfer.assetProof.proof) = MaxProof
    /\ xfer.merkleTreeAccountRaw.canopyDepth = 1
    /\ Len(xfer.anchorRemainingAccounts) = MaxProof - 1

\* the builds of the purchase request that have not resolved
BuildsInFlight(p) == {k \in DOMAIN p.builds : p.builds[k].stage # "done"}

(* C34 (SpecPurchase): the builds of a purchase request that are in flight *)
(* belong to one chunk of at most chunkSize bricks, and builds are started *)
(* only when at most one build is unresolved, which is the one whose       *)
(* return lets the loop go on: the next chunk starts after every build of  *)
(* the chunk before it has resolved.                                       *)
C34_ChunksOneAfterTheOther ==
    /\ [](/\ Cardinality(BuildsInFlight(pur)) <= chunkSize
          /\ \A k \in DOMAIN pur.builds : pur.i < k /\ k <= pur.i + chunkSize)
    /\ [][pur'.started \ pur.started # {}
          => /\ Cardinality(BuildsInFlight(pur)) <= 1
             /\ \A k \in pur.started : k <= pur'.i
             /\ \A k \in pur'.started \ pur.started :
                   pur'.i < k /\ k <= pur'.i + chunkSize]_vars

\* witness: the second chunk of a request is being built after the first
\* chunk gave chunkSize transactions
C34_Witness ==
    /\ pur.pc = "chunk"
    /\ pur.i = chunkSize
    /\ BuildsInFlight(pur) # {}
    /\ Len(pur.transactions) = chunkSize

(* C35 (SpecLoad): no step takes the purchased flag of a brick back: a row *)
(* that has purchased = TRUE is still in the table after the step and      *)
(* still has purchased = TRUE, whether the step belongs to the             *)
(* reconciliation loop, an upload, an edit or a load of the catalog.       *)
C35_PurchasedIsMonotone ==
    [][\A c \in DOMAIN wall_bricks :
          wall_bricks[c].purchased
          => /\ c \in DOMAIN wall_bricks'
             /\ wall_bricks'[c].purchased]_vars

\* witness: a brick marked purchased and edited before the restart stands
\* next to a brick the reload of the changed catalog added
C35_Witness ==
    /\ load.reloaded /\ load.pc = "loaded" /\ load.tasks = <<>>
    /\ Len(edit_bricks) > 0
    /\ \E c, e \in DOMAIN wall_bricks :
          /\ wall_bricks[c].purchased
          /\ ~wall_bricks[e].purchased
          /\ wall_bricks[e].image_location = NULL

(* C36 (SpecReconcile): in a cycle of the reconciliation loop for which    *)
(* the oracle returned an empty list, the loop goes from its SELECT        *)
(* straight to its sleep: it issues no UPDATE, and its steps change no row *)
(* of wall_bricks and leave the cache as it is.                            *)
C36_EmptyAnswerChangesNothing ==
    /\ [](recon.pc = "update" => recon.currentAssets # {})
    /\ [][(/\ recon.pc = "query"
           /\ recon.currentAssets = {}
           /\ recon' # recon)
          => /\ recon'.pc = "sleep"
             /\ recon'.outcome \in {"nothing", "error"}
             /\ UNCHANGED <<wall_bricks, edit_bricks, cache>>]_vars

\* witness: the oracle's answer was empty although the service identity
\* holds an asset (its first page failed), a brick has been sold and is
\* unmarked, and the cycle has ended with nothing to update
C36_Witness ==
    /\ recon.pc = "sleep"
    /\ recon.outcome = "nothing"
    /\ recon.currentAssets = {}
    /\ ~recon.complete
    /\ \E c \in DOMAIN wall_bricks :
          /\ wall_bricks[c].assetId \notin holdings
          /\ ~wall_bricks[c].purchased

(* C37 (stated as claimed; SpecEdit): an edit request answered with an     *)
(* error has changed no brick's image_location and added no edit record;   *)
(* an edit request answered 200 has updated every brick it names and       *)
(* added the one edit record that holds its signature.                     *)
C37_EditAllOrNothing ==
    \A r \in Requests :
        (req[r].kind = "defined" /\ req[r].pc = "done")
        => /\ req[r].status >= 400
              => (req[r].wrote = {} /\ ~req[r].recorded)
           /\ req[r].status = 200
              => /\ req[r].wrote = Range(req[r].images)
                 /\ req[r].recorded
                 /\ Cardinality(EditRecords(req[r].signature)) = 1

(* C38 (stated as claimed; SpecCache): when no request, no render and no   *)
(* reconciliation cycle is in flight, a cache that getWallInfo would serve *)
(* (both fields set) holds the image and the bricks list of the rows that  *)
(* wall_bricks holds now.                                                  *)
C38_NoStaleRenderAtRest ==
    (/\ cache.renders = <<>>
     /\ \A r \in Requests : req[r].pc = "idle"
     /\ info.pc = "idle"
     /\ recon.pc = "sleep"
     /\ cache.cachedImage.defined /\ cache.cachedBricks.defined)
    => /\ cache.cachedImage = RenderedImage(wall_bricks)
       /\ cache.cachedBricks = RenderedBricks(wall_bricks)

(* C39 (stated as claimed; SpecLoad): once loadBricksFromJSON has          *)
(* returned, the table holds exactly one row for every coordinate the      *)
(* catalog names with an asset id; and no step of the loader changes or    *)
(* removes a row that was in the table.                                    *)
C39_LoadCompletesCatalog ==
    /\ [](load.pc = "loaded"
            => \A k \in DOMAIN load.catalog :
                  load.catalog[k].assetId # 0
                  => Cardinality({i \in DOMAIN load.rows :
                                     load.rows[i].x = load.catalog[k].column}) = 1)
    /\ [][load' # load
          => \A c \in DOMAIN wall_bricks :
                c \in DOMAIN wall_bricks' /\ wall_bricks'[c] = wall_bricks[c]]_vars

(***************************************************************************)
(* The path of an edit-payment transaction from purchaseBrickModify to     *)
(* modifyDefinedPurchasedBricks: serialize compiles it to a message (an    *)
(* ordered list of account keys, and instructions that name their program  *)
(* and accounts by index into it), the user signs and submits it as it is, *)
(* and getTransaction returns the message, which the handler decompiles    *)
(* and decodes.                                                            *)
(***************************************************************************)
\* keys of an instruction: a transfer names the sender (signer, writable)
\* and the recipient (writable), a compute-budget instruction no account
InstructionKeys(instruction) ==
    IF instruction.type = "transfer"
    THEN << [pubkey |-> instruction.fromPubkey, isSigner |-> TRUE, isWritable |-> TRUE],
            [pubkey |-> instruction.toPubkey, isSigner |-> FALSE, isWritable |-> TRUE] >>
    ELSE << >>

\* the accounts a transaction mentions, in the order the compiler meets
\* them: the fee payer, then each instruction's program and keys
RECURSIVE KeyMentions(_)
KeyMentions(instructions) ==
    IF instructions = << >> THEN << >>
    ELSE << [pubkey |-> Head(instructions).programId, isSigner |-> FALSE,
             isWritable |-> FALSE] >>
         \o InstructionKeys(Head(instructions))
         \o KeyMentions(Tail(instructions))

\* first occurrences of the elements of a sequence, in order
RECURSIVE FirstOccurrences(_)
FirstOccurrences(s) ==
    IF s = << >> THEN << >>
    ELSE LET front == FirstOccurrences(SubSeq(s, 1, Len(s) - 1))
         IN  IF s[Len(s)] \in Range(front) THEN front ELSE Append(front, s[Len(s)])

\* the account keys of the compiled message: one entry per account, the
\* writable signers first (the fee payer before every other), then the
\* read-only signers, the writable non-signers, the read-only non-signers
staticAccountKeys(transaction) ==
    LET mentions == << [pubkey |-> transaction.feePayer, isSigner |-> TRUE,
                        isWritable |-> TRUE] >>
                    \o KeyMentions(transaction.instructions)
        keys == FirstOccurrences([i \in DOMAIN mentions |-> mentions[i].pubkey])
        isSigner(k) == \E i \in DOMAIN mentions :
                           mentions[i].pubkey = k /\ mentions[i].isSigner
        isWritable(k) == \E i \in DOMAIN mentions :
                             mentions[i].pubkey = k /\ mentions[i].isWritable
        WritableSigner(k) == isSigner(k) /\ isWritable(k)
        ReadonlySigner(k) == isSigner(k) /\ ~isWritable(k)
        WritableNonSigner(k) == ~isSigner(k) /\ isWritable(k)
        ReadonlyNonSigner(k) == ~isSigner(k) /\ ~isWritable(k)
    IN  SelectSeq(keys, WritableSigner) \o SelectSeq(keys, ReadonlySigner)
        \o SelectSeq(keys, WritableNonSigner) \o SelectSeq(keys, ReadonlyNonSigner)

\* position of an account in the key list (0-based, as in the message)
KeyIndex(keys, k) == (CHOOSE i \in DOMAIN keys : keys[i] = k) - 1

\* transaction.serialize: the message the transaction compiles to
compileMessage(transaction) ==
    LET keys == staticAccountKeys(transaction)
    IN  [staticAccountKeys |-> keys,
         compiledInstructions |->
            [i \in DOMAIN transaction.instructions |->
                LET instruction == transaction.instructions[i]
                    metas == InstructionKeys(instruction)
                IN  [programIdIndex |-> KeyIndex(keys, instruction.programId),
                     accountKeyIndexes |->
                        [k \in DOMAIN metas |-> KeyIndex(keys, metas[k].pubkey)],
                     \* the amount is written as a u64: the sums of the wall lie
                     \* far below its range
                     data |-> [type |-> instruction.type,
                               lamports |-> instruction.lamports]]],
         recentBlockhash |-> transaction.recentBlockhash]

\* decompileInstruction(instruction, txData)
decompileInstruction(instruction, txData) ==
    [programId |-> txData.staticAccountKeys[instruction.programIdIndex + 1],
     keys |-> [k \in DOMAIN instruction.accountKeyIndexes |->
                  txData.staticAccountKeys[instruction.accountKeyIndexes[k] + 1]],
     data |-> instruction.data]

\* the instruction as the validation loop sees it: a System transfer is
\* decoded by SystemInstruction.decodeTransfer, any other instruction is
\* passed over
decodeTransfer(decompiledInstruction) ==
    IF /\ decompiledInstruction.programId = "System"
       /\ decompiledInstruction.data.type = "transfer"
    THEN [programId |-> "System",
          fromPubkey |-> decompiledInstruction.keys[1],
          toPubkey |-> decompiledInstruction.keys[2],
          lamports |-> decompiledInstruction.data.lamports]
    ELSE [programId |-> decompiledInstruction.programId, fromPubkey |-> NULL,
          toPubkey |-> NULL, lamports |-> 0]

\* what getTransaction returns for a transaction that was finalized as
\* assembled: its signer is the first account key of the message
FinalizedTransaction(transaction) ==
    LET txData == compileMessage(transaction)
    IN  [feePayer |-> txData.staticAccountKeys[1],
         instructions |->
            [i \in DOMAIN txData.compiledInstructions |->
                decodeTransfer(decompileInstruction(txData.compiledInstructions[i], txData))]]

\* getTransaction returns the transaction the last answer of
\* purchaseBrickModify carried
MD_FetchAssembled(r) ==
    /\ mod.pc = "done" /\ mod.status = 200
    /\ MD_Fetched(r, FinalizedTransaction(mod.response[1]))

(***************************************************************************)
(* SpecRoundTrip: an edit-payment request of some address next to an edit  *)
(* request whose signature is that of the transaction the former answered  *)
(* with, on a wall whose bricks were bought and given an image earlier.    *)
(***************************************************************************)
InitRoundTrip == InitAssembly

NextRoundTrip ==
    \/ M_StartFrom(LedgerAddresses \cup {BadAddress})
    \/ M_Query
    \/ M_Oracle
    \/ M_Blockhash
    \/ M_Finish
    \/ MD_Start("r1", MaxImages)
    \/ MD_Query("r1")
    \/ MD_Oracle("r1")
    \/ MD_Replay("r1")
    \/ MD_FetchEmpty("r1")
    \/ MD_FetchAssembled("r1")
    \/ MD_FetchError("r1")
    \/ MD_Insert("r1")
    \/ ImageTasks("r1")
    \/ Finish("r1")

SpecRoundTrip == InitRoundTrip /\ [][NextRoundTrip]_vars

\* C40: when the edit handler fetches the transaction purchaseBrickModify
\* assembled for n bricks and an address, finalized as assembled, the
\* payment and fee-payer checks pass if the request comes from that address
\* with n images, and answer 400 for any other image count or address
C40_AssembledTransactionRoundTrip ==
    [][\A r \in Requests :
          (/\ req[r].pc = "fetch" /\ req'[r].found
           /\ mod.pc = "done" /\ mod.status = 200 /\ mod' = mod)
          => IF /\ req[r].solAddress = mod.solAddress
                /\ Len(req[r].images) = Len(mod.bricks)
             THEN req'[r].pc = "write" /\ req'[r].status = 0
             ELSE /\ req'[r].pc = "done" /\ req'[r].status = 400
                  /\ req'[r].error \in
                        {"Invalid transaction: incorrect SOL payment.",
                         "Transaction not signed by the provided SOL address."}
                  /\ req'[r].tasks = << >>]_vars

C40_Witness ==
    /\ req["r1"].kind = "defined" /\ req["r1"].pc = "write" /\ req["r1"].found
    /\ Len(req["r1"].images) = 2
    /\ mod.pc = "done" /\ mod.status = 200 /\ Len(mod.bricks) = 2
    /\ mod.solAddress = req["r1"].solAddress

C40_WitnessOtherCount ==
    /\ req["r1"].kind = "defined" /\ req["r1"].pc = "done" /\ req["r1"].found
    /\ req["r1"].status = 400
    /\ mod.pc = "done" /\ mod.status = 200
    /\ mod.solAddress = req["r1"].solAddress
    /\ Len(mod.bricks) # Len(req["r1"].images)

C40_WitnessOtherAddress ==
    /\ req["r1"].kind = "defined" /\ req["r1"].pc = "done" /\ req["r1"].found
    /\ req["r1"].status = 400
    /\ mod.pc = "done" /\ mod.status = 200
    /\ mod.solAddress # req["r1"].solAddress
    /\ Len(mod.bricks) = Len(req["r1"].images)

====
